---- MODULE Spec2Model ----
(***************************************************************************)
(* Model of the searchPy ranking service: StringDistance, FieldEvaluator,  *)
(* PhoneticScorer, SearchUtils (the ranker) and SearchService.search with  *)
(* its cache.                                                              *)
(*                                                                         *)
(* Conventions.  A Python str is a sequence of one-character strings.      *)
(* A Python float is an exact rational [n |-> numerator, d |-> denominator]*)
(* in lowest terms.  Python None is the integer None (-1) and the empty    *)
(* string used as an id default is EmptyStr (-2); ids are naturals.        *)
(***************************************************************************)
EXTENDS Integers, Sequences, FiniteSets, TLC

VARIABLES
    query_data,     \* QueryData of the request being served
    hit,            \* classify_result: the candidate document being scored
    scored,         \* classify_result: its enriched copy
    all_results,    \* strategy -> backend result, as handed to process_results
    dedup,          \* result of deduplicate_results
    processed,      \* result of process_results
    index,          \* backend index: strategy -> ranked list of documents
    cache,          \* cache_manager: cache key -> stored SearchResponse / None
    options,        \* SearchOptions of the request being served
    pc,             \* position of SearchService.search
    cached_result,  \* search: value returned by cache.get
    full_response,  \* search: value returned by _execute_search
    response,       \* search: the SearchResponse returned to the caller
    calls,          \* log of the calls made by search for this request
    synonyms,       \* FieldEvaluator.synonyms: the table of the evaluator
    match_query,    \* calculate_word_match: the word of the query
    match_candidate,\* calculate_word_match: the word of the candidate
    word_match,     \* calculate_word_match: its result
    field_eval,     \* evaluate_field: its result and the positions it scanned
    geo_hits_in,    \* disperse_results: the hits it is given
    dispersion,     \* disperse_results: its result
    lru,            \* StringDistance.distance: the entries of its lru_cache
    distance_calls, \* StringDistance.distance: the calls made and their returns
    all_results_after, \* process_results: the strategy result lists it was given,
                    \* as they are once it has returned
    completion      \* _parallel_strategies: the order in which its tasks completed

\* the scheduling of the tasks of _parallel_strategies
gather_vars == <<completion>>

\* the argument of process_results after the call
argument_vars == <<all_results_after>>

\* the state of the memoized StringDistance.distance
distance_vars == <<lru, distance_calls>>

\* the state of a disperse_results call
dispersion_vars == <<geo_hits_in, dispersion>>

\* the state of an evaluate_field call made on its own
field_vars == <<field_eval>>

\* the state of a FieldEvaluator used on its own
evaluator_vars == <<synonyms, match_query, match_candidate, word_match>>

vars == <<query_data, hit, scored, all_results, dedup, processed, index, cache,
          options, pc, cached_result, full_response, response, calls,
          synonyms, match_query, match_candidate, word_match, field_eval,
          geo_hits_in, dispersion, lru, distance_calls, all_results_after,
          completion>>

-----------------------------------------------------------------------------
(* Exact arithmetic standing for Python floats *)

None == -1
EmptyStr == -2

Abs(i) == IF i < 0 THEN -i ELSE i
MinI(a, b) == IF a <= b THEN a ELSE b
MaxI(a, b) == IF a >= b THEN a ELSE b

RECURSIVE GCD(_, _)
GCD(a, b) == IF b = 0 THEN a ELSE GCD(b, a % b)

R(n, d) ==
    LET g == GCD(Abs(n), d)
    IN  [n |-> n \div g, d |-> d \div g]

RI(i) == [n |-> i, d |-> 1]
RAdd(a, b) ==
    LET g == GCD(a.d, b.d)
    IN  R(a.n * (b.d \div g) + b.n * (a.d \div g), (a.d \div g) * b.d)
RNeg(a) == [n |-> -a.n, d |-> a.d]
RSub(a, b) == RAdd(a, RNeg(b))
RMul(a, b) ==
    LET g1 == GCD(Abs(a.n), b.d)
        g2 == GCD(Abs(b.n), a.d)
    IN  R((a.n \div g1) * (b.n \div g2), (a.d \div g2) * (b.d \div g1))
\* a / b for b > 0
RDiv(a, b) == RMul(a, [n |-> b.d, d |-> b.n])
RLt(a, b) ==
    LET g == GCD(a.d, b.d)
    IN  a.n * (b.d \div g) < b.n * (a.d \div g)
RLe(a, b) == ~RLt(b, a)
RGt(a, b) == RLt(b, a)
RGe(a, b) == RLe(b, a)
RMin(a, b) == IF RLe(a, b) THEN a ELSE b
RMax(a, b) == IF RGe(a, b) THEN a ELSE b
RAbs(a) == [n |-> Abs(a.n), d |-> a.d]

\* round(x, 2): nearest multiple of 1/100, ties to the even one
round2(x) ==
    LET g  == GCD(100, x.d)
        k  == 100 \div g
        d  == x.d \div g
        q  == x.n \div d
        r  == x.n % d
        fl == k * q + (k * r) \div d
        rm == (k * r) % d
    IN  IF 2 * rm < d THEN R(fl, 100)
        ELSE IF 2 * rm > d THEN R(fl + 1, 100)
        ELSE IF fl % 2 = 0 THEN R(fl, 100) ELSE R(fl + 1, 100)

-----------------------------------------------------------------------------
(* str helpers *)

UpperCase == <<"A", "B", "C", "D", "J", "K", "S", "X", "Y", "Z">>
LowerCase == <<"a", "b", "c", "d", "j", "k", "s", "x", "y", "z">>

lower_char(c) ==
    IF \E i \in 1..Len(UpperCase) : UpperCase[i] = c
    THEN LowerCase[CHOOSE i \in 1..Len(UpperCase) : UpperCase[i] = c]
    ELSE c

\* str.lower()
lower(s) == [i \in 1..Len(s) |-> lower_char(s[i])]

\* [w for w in re.split(r'\s+', s.strip()) if w]
RECURSIVE split_ws(_, _, _)
split_ws(s, cur, acc) ==
    IF Len(s) = 0
    THEN IF Len(cur) > 0 THEN Append(acc, cur) ELSE acc
    ELSE IF Head(s) = " "
         THEN split_ws(Tail(s), <<>>, IF Len(cur) > 0 THEN Append(acc, cur) ELSE acc)
         ELSE split_ws(Tail(s), Append(cur, Head(s)), acc)

words_of(s) == split_ws(s, <<>>, <<>>)

\* s.strip()
RECURSIVE lstrip(_)
lstrip(s) == IF Len(s) > 0 /\ Head(s) = " " THEN lstrip(Tail(s)) ELSE s

RECURSIVE rstrip(_)
rstrip(s) ==
    IF Len(s) > 0 /\ s[Len(s)] = " " THEN rstrip(SubSeq(s, 1, Len(s) - 1)) ELSE s

strip(s) == rstrip(lstrip(s))

\* a.startswith(b)
startswith(a, b) == Len(b) <= Len(a) /\ SubSeq(a, 1, Len(b)) = b

-----------------------------------------------------------------------------
(* StringDistance (app/scoring/distance.py) *)

\* lev.distance: Levenshtein distance with unit costs
RECURSIVE lev_distance(_, _)
lev_distance(a, b) ==
    IF Len(a) = 0 THEN Len(b)
    ELSE IF Len(b) = 0 THEN Len(a)
    ELSE IF Head(a) = Head(b) THEN lev_distance(Tail(a), Tail(b))
    ELSE 1 + MinI(lev_distance(Tail(a), Tail(b)),
                  MinI(lev_distance(Tail(a), b), lev_distance(a, Tail(b))))

distance(s1, s2, max_dist) ==
    IF Len(s1) = 0 \/ Len(s2) = 0 THEN MaxI(Len(s1), Len(s2))
    ELSE LET dist == lev_distance(s1, s2)
         IN  IF max_dist # None /\ dist > max_dist
             THEN max_dist + 1
             ELSE dist

dynamic_max(s) ==
    IF Len(s) <= 3 THEN 1
    ELSE IF Len(s) <= 6 THEN 2
    ELSE IF Len(s) <= 10 THEN 3
    ELSE 4

-----------------------------------------------------------------------------
(* Settings (app/config.py) *)

MAX_LEVENSHTEIN_DISTANCE == 4
MIN_SCORE == RI(1)
W_MISSING == R(6, 10)
W_FUZZY == R(5, 10)
W_RATIO == RI(1)
W_EXTRA_LENGTH == R(15, 100)
BONUS_MAX == RI(2)
BONUS_A_MISSING == R(3, 10)
BONUS_C_AVGDIST == R(35, 100)
BONUS_WORD_RATIO_MIN == R(4, 10)
BONUS_EXTRA_RATIO_MAX == RI(1)
EXACT_THRESHOLD == RI(10)
EXACT_FULL_CAP == R(999, 100)
NO_SPACE_MIN_SCORE == RI(7)

TYPE_PRIORITY ==
    [exact_full |-> 0, exact_with_extras |-> 1, no_space_match |-> 1,
     near_perfect |-> 2, phonetic_strict |-> 3, exact_with_missing |-> 4,
     fuzzy_full |-> 5, hybrid |-> 6, phonetic_tolerant |-> 7,
     fuzzy_partial |-> 8, partial |-> 9]

\* settings.TYPE_PRIORITY.get(t, settings.TYPE_PRIORITY['partial'])
type_priority(t) ==
    IF t \in DOMAIN TYPE_PRIORITY THEN TYPE_PRIORITY[t] ELSE TYPE_PRIORITY["partial"]

-----------------------------------------------------------------------------
(* FieldEvaluator (app/scoring/evaluator.py) *)

\* self.max_distance of the evaluator built by SearchUtils()
max_distance == MAX_LEVENSHTEIN_DISTANCE

\* self.synonyms of the evaluator built by SearchService: SearchUtils() passes
\* synonyms=None, which FieldEvaluator stores as {}.  A table is a set of
\* rows [base |-> word, syns |-> set of words].
default_synonyms == {}

\* mutant: only a surface form written for its base is a synonym
apply_synonyms_directed(word1, word2) ==
    \E row \in synonyms : lower(word1) \in row.syns /\ lower(word2) = row.base

\* apply_synonyms(...) is not None
apply_synonyms(word1, word2) ==
    LET w1 == lower(word1)
        w2 == lower(word2)
    IN  \E row \in synonyms :
            /\ (w1 = row.base \/ w1 \in row.syns)
            /\ (w2 = row.base \/ w2 \in row.syns)

calculate_word_match(query_word, candidate_word) ==
    LET q == lower(query_word)
        c == lower(candidate_word)
    IN  IF q = c
        THEN [distance |-> 0, type |-> "exact", matched_word |-> candidate_word]
        ELSE IF apply_synonyms(q, c)
        THEN [distance |-> 0, type |-> "synonym", matched_word |-> candidate_word]
        ELSE LET max_dist == MinI(max_distance, dynamic_max(q))
             IN  [distance |-> distance(q, c, max_dist), type |-> "levenshtein",
                  matched_word |-> candidate_word]

\* best_match = None; scanned records the candidate positions the scan has
\* compared with the query word
no_match == [ok |-> FALSE, distance |-> 0, type |-> "none", matched_word |-> <<>>,
             position |-> 0, scanned |-> {}]

\* the scan of find_best_word_match from candidate position `position` (0-based)
RECURSIVE best_word_scan(_, _, _, _, _, _)
best_word_scan(query_word, candidate_words, used_positions, position, best_match, best_distance) ==
    IF position >= Len(candidate_words) THEN best_match
    ELSE IF position \in used_positions
    THEN best_word_scan(query_word, candidate_words, used_positions, position + 1,
                        best_match, best_distance)
    ELSE LET match == calculate_word_match(query_word, candidate_words[position + 1])
             scanned == best_match.scanned \cup {position}
             better == [ok |-> TRUE, distance |-> match.distance, type |-> match.type,
                        matched_word |-> match.matched_word, position |-> position,
                        scanned |-> scanned]
         IN  IF match.distance < best_distance
             THEN IF match.distance = 0 THEN better
                  ELSE best_word_scan(query_word, candidate_words, used_positions,
                                      position + 1, better, match.distance)
             ELSE best_word_scan(query_word, candidate_words, used_positions,
                                 position + 1, [best_match EXCEPT !.scanned = scanned],
                                 best_distance)

\* returns best_match (ok = FALSE for None); the caller adds its position to
\* used_positions, as line 85 does
find_best_word_match(query_word, candidate_words, used_positions) ==
    best_word_scan(query_word, candidate_words, used_positions, 0,
                   no_match, max_distance + 1)

\* mutant: a matched position is not recorded as used
RECURSIVE match_query_words_reusing(_, _, _, _)
match_query_words_reusing(query_words, candidate_words, k, acc) ==
    IF k > Len(query_words) THEN acc
    ELSE LET q_word == query_words[k]
             best == find_best_word_match(q_word, candidate_words, {})
         IN  IF best.ok /\ best.distance <= max_distance
             THEN match_query_words_reusing(query_words, candidate_words, k + 1,
                    [found |-> Append(acc.found,
                                 [query_word |-> q_word,
                                  matched_word |-> best.matched_word,
                                  distance |-> best.distance,
                                  type |-> best.type,
                                  position |-> best.position]),
                     not_found |-> acc.not_found,
                     total_distance |-> acc.total_distance + best.distance,
                     used_positions |-> {},
                     scans |-> Append(acc.scans,
                                [scanned |-> best.scanned,
                                 consumed |-> IF best.ok THEN best.position ELSE None])])
             ELSE match_query_words_reusing(query_words, candidate_words, k + 1,
                    [found |-> acc.found,
                     not_found |-> Append(acc.not_found, q_word),
                     total_distance |-> acc.total_distance,
                     used_positions |-> {},
                     scans |-> Append(acc.scans,
                                [scanned |-> best.scanned,
                                 consumed |-> IF best.ok THEN best.position ELSE None])])

\* the loop of evaluate_field over query_words[k..]
RECURSIVE match_query_words(_, _, _, _)
match_query_words(query_words, candidate_words, k, acc) ==
    IF k > Len(query_words) THEN acc
    ELSE LET q_word == query_words[k]
             best == find_best_word_match(q_word, candidate_words, acc.used_positions)
             used == IF best.ok THEN acc.used_positions \cup {best.position}
                     ELSE acc.used_positions
         IN  IF best.ok /\ best.distance <= max_distance
             THEN match_query_words(query_words, candidate_words, k + 1,
                    [found |-> Append(acc.found,
                                 [query_word |-> q_word,
                                  matched_word |-> best.matched_word,
                                  distance |-> best.distance,
                                  type |-> best.type,
                                  position |-> best.position]),
                     not_found |-> acc.not_found,
                     total_distance |-> acc.total_distance + best.distance,
                     used_positions |-> used,
                     scans |-> Append(acc.scans,
                                [scanned |-> best.scanned,
                                 consumed |-> IF best.ok THEN best.position ELSE None])])
             ELSE match_query_words(query_words, candidate_words, k + 1,
                    [found |-> acc.found,
                     not_found |-> Append(acc.not_found, q_word),
                     total_distance |-> acc.total_distance,
                     used_positions |-> used,
                     scans |-> Append(acc.scans,
                                [scanned |-> best.scanned,
                                 consumed |-> IF best.ok THEN best.position ELSE None])])

RECURSIVE sum_len_extras(_, _, _)
sum_len_extras(candidate_words, found_positions, pos) ==
    IF pos >= Len(candidate_words) THEN 0
    ELSE (IF pos \in found_positions THEN 0 ELSE Len(candidate_words[pos + 1]))
         + sum_len_extras(candidate_words, found_positions, pos + 1)

\* lines 127-162 of evaluate_field: the statistics of the matches m found by
\* the loop
field_statistics(query_words, candidate_words, query_text, m) ==
    LET found_count == Len(m.found)
        query_count == Len(query_words)
        result_count == Len(candidate_words)
        avg_distance == IF found_count > 0 THEN R(m.total_distance, found_count)
                        ELSE RI(0)
        missing_terms == Len(m.not_found)
        length_ratio == IF query_count # 0 /\ result_count # 0
                        THEN R(MinI(query_count, result_count),
                               MaxI(query_count, result_count))
                        ELSE RI(1)
        coverage_ratio == IF query_count > 0 THEN R(found_count, query_count)
                          ELSE RI(1)
        found_positions == {m.found[i].position : i \in 1..Len(m.found)}
        extra_length == sum_len_extras(candidate_words, found_positions, 0)
        query_length == Len(query_text)
        extra_length_ratio == IF query_length > 0 THEN R(extra_length, query_length)
                              ELSE RI(0)
    IN  [found |-> m.found,
         not_found |-> m.not_found,
         total_distance |-> m.total_distance,
         average_distance |-> avg_distance,
         found_count |-> found_count,
         query_count |-> query_count,
         result_count |-> result_count,
         extra_length |-> extra_length,
         extra_length_ratio |-> extra_length_ratio,
         penalties |-> [mots_manquants |-> missing_terms,
                        distance_moyenne |-> avg_distance,
                        longueur_ratio |-> length_ratio,
                        coverage_ratio |-> coverage_ratio,
                        extra_length |-> extra_length,
                        extra_length_ratio |-> extra_length_ratio]]

\* lines 100-103: the lists and the positions before the loop; scans[k]
\* records the candidate positions scanned for the k-th query word and the
\* position it consumed
no_alignment == [found |-> <<>>, not_found |-> <<>>, total_distance |-> 0,
                 used_positions |-> {}, scans |-> <<>>]

evaluate_field(query_words, candidate_words, query_text) ==
    field_statistics(query_words, candidate_words, query_text,
        match_query_words(query_words, candidate_words, 1, no_alignment))

\* mutant: the length ratio itself is charged, not its distance from 1
adjusted_score_ratio_charged(ev) ==
    IF ev.found_count = 0 THEN RI(0)
    ELSE RMax(RI(0),
              RSub(RMax(RI(0), RMin(RI(10), RI(10 - ev.total_distance))),
                   RAdd(RAdd(RMul(W_MISSING, RI(ev.penalties.mots_manquants)),
                             RMul(W_FUZZY, RMax(RI(0), ev.penalties.distance_moyenne))),
                        RAdd(RMul(W_RATIO, RMax(RI(0), RMin(RI(1), ev.penalties.longueur_ratio))),
                             RMul(RMul(W_EXTRA_LENGTH, ev.penalties.extra_length_ratio), RI(10))))))

\* lines 208-220 / 226-238: the adjusted score of one evaluated field,
\* before the no_space threshold
adjusted_score(ev) ==
    IF ev.found_count = 0 THEN RI(0)
    ELSE LET p == ev.penalties
             score == RMax(RI(0), RMin(RI(10), RI(10 - ev.total_distance)))
             penalty ==
                 RAdd(RAdd(RMul(W_MISSING, RI(p.mots_manquants)),
                           RMul(W_FUZZY, RMax(RI(0), p.distance_moyenne))),
                      RAdd(RMul(W_RATIO,
                                RSub(RI(1), RMax(RI(0), RMin(RI(1), p.longueur_ratio)))),
                           RMul(RMul(W_EXTRA_LENGTH, p.extra_length_ratio), RI(10))))
         IN  RMax(RI(0), RSub(score, penalty))

\* score_terms of calculate_name_bonus, in tenths
RECURSIVE score_terms10(_, _)
score_terms10(found, i) ==
    IF i > Len(found) THEN 0
    ELSE (IF found[i].distance = 0 THEN 10
          ELSE IF found[i].distance = 1 THEN 7
          ELSE IF found[i].distance = 2 THEN 4
          ELSE 2)
         + score_terms10(found, i + 1)

calculate_name_bonus(eval_name, query_words, query_text) ==
    LET query_word_count == Len(query_words)
        name_word_count == eval_name.result_count
        word_count_ratio ==
            IF name_word_count > 0
            THEN R(MinI(query_word_count, name_word_count),
                   MaxI(query_word_count, name_word_count))
            ELSE RI(0)
        extra_length_ratio == eval_name.extra_length_ratio
        score_terms == R(score_terms10(eval_name.found, 1), 10)
        max_score == MaxI(1, query_word_count)
        score_ratio == RDiv(score_terms, RI(max_score))
        bonus_base == RMul(BONUS_MAX, score_ratio)
        pn == eval_name.penalties
        bonus_reduction ==
            RAdd(RAdd(RMul(BONUS_A_MISSING, RI(pn.mots_manquants)),
                      RMul(BONUS_C_AVGDIST, RMax(RI(0), eval_name.average_distance))),
                 RMul(RMul(BONUS_MAX, extra_length_ratio), R(6, 10)))
        bonus == RMax(RI(0), RMin(BONUS_MAX, RSub(bonus_base, bonus_reduction)))
        attenuation_range == RSub(RI(1), BONUS_WORD_RATIO_MIN)
        attenuation_factor ==
            RMax(RI(0), RMin(RI(1),
                 RDiv(RSub(word_count_ratio, BONUS_WORD_RATIO_MIN), attenuation_range)))
    IN  IF RLt(word_count_ratio, BONUS_WORD_RATIO_MIN)
           \/ RGt(extra_length_ratio, BONUS_EXTRA_RATIO_MAX)
        THEN RI(0)
        ELSE RMul(bonus, attenuation_factor)

empty_dict == [k \in {} |-> 0]

\* lines 229-231: a no_space score under NO_SPACE_MIN_SCORE counts as 0
no_space_threshold(no_space_score_raw) ==
    IF RLt(no_space_score_raw, NO_SPACE_MIN_SCORE) THEN RI(0) ELSE no_space_score_raw

\* lines 245-334 of calculate_main_score: the winner, the total and the type,
\* from the evaluated fields, their adjusted scores and the name bonus
winning_score(qd, eval_search, eval_no_space, name_search_score_adj, no_space_score_adj, bonus) ==
    LET search_valid == RGt(name_search_score_adj, RI(0)) /\ eval_search.found_count > 0
        no_space_valid == RGt(no_space_score_adj, RI(0)) /\ eval_no_space.found_count > 0
        winning_strategy ==
            IF no_space_valid
               /\ (~search_valid \/ RGe(no_space_score_adj, name_search_score_adj))
            THEN "no_space"
            ELSE IF search_valid THEN "name_search" ELSE "none"
        base_score == IF winning_strategy = "no_space" THEN no_space_score_adj
                      ELSE IF winning_strategy = "name_search" THEN name_search_score_adj
                      ELSE RI(0)
        winning_eval == IF winning_strategy = "no_space" THEN eval_no_space
                        ELSE eval_search
        winning_penalties == winning_eval.penalties
        total_score == RMin(RI(12), RAdd(base_score, bonus))
        avg == winning_eval.average_distance
        missing == winning_penalties.mots_manquants
        extra_ratio == winning_penalties.extra_length_ratio
        type0 ==
            IF winning_eval.found_count = 0 THEN "partial"
            ELSE IF avg = RI(0)
            THEN IF missing = 0 /\ extra_ratio = RI(0) THEN "exact_full"
                 ELSE IF missing = 0
                 THEN IF winning_strategy = "no_space" THEN "no_space_match"
                      ELSE "exact_with_extras"
                 ELSE "exact_with_missing"
            ELSE IF missing = 0 THEN "fuzzy_full" ELSE "fuzzy_partial"
        match_type == IF type0 = "fuzzy_full" /\ RGe(total_score, RI(8))
                      THEN "near_perfect" ELSE type0
    IN  IF Len(qd.wordsCleaned) = 0
        THEN [name_search_score |-> RI(0), no_space_score |-> RI(0),
              base_score |-> RI(0), name_score |-> RI(0), total_score |-> RI(0),
              winning_strategy |-> "none", _penalty_indices |-> empty_dict,
              all_words_found |-> FALSE, match_type |-> "partial",
              match_priority |-> TYPE_PRIORITY["partial"]]
        ELSE [name_search_score |-> name_search_score_adj,
              no_space_score |-> no_space_score_adj,
              base_score |-> base_score, name_score |-> bonus,
              total_score |-> total_score,
              winning_strategy |-> winning_strategy,
              _penalty_indices |-> winning_penalties,
              all_words_found |-> (winning_penalties.mots_manquants = 0),
              match_type |-> match_type,
              match_priority |-> type_priority(match_type)]

\* lines 204-242 of calculate_main_score: the adjusted scores of the
\* evaluated fields and the name bonus
score_fields(qd, eval_search, eval_no_space, eval_name) ==
    winning_score(qd, eval_search, eval_no_space,
                  adjusted_score(eval_search),
                  no_space_threshold(adjusted_score(eval_no_space)),
                  calculate_name_bonus(eval_name, qd.wordsOriginal, qd.original))

calculate_main_score(h, qd) ==
    score_fields(qd,
        evaluate_field(qd.wordsCleaned, words_of(lower(h.name_search)), qd.cleaned),
        evaluate_field(qd.wordsNoSpace, words_of(lower(h.name_no_space)), qd.no_space),
        evaluate_field(qd.wordsOriginal, words_of(lower(h.name)), qd.original))

-----------------------------------------------------------------------------
(* PhoneticScorer (app/scoring/phonetic.py) *)

phonetic_tokens(s) ==
    SelectSeq(words_of(lower(strip(s))), LAMBDA t : Len(t) > 1)

\* the inner loop of match_phonetic_tokens from hit index idx (0-based);
\* st = [best_idx, is_tolerant]
RECURSIVE phonetic_scan(_, _, _, _, _, _)
phonetic_scan(query_token, hit_tokens, used, tolerant, idx, st) ==
    IF idx >= Len(hit_tokens) THEN st
    ELSE IF idx \in used
    THEN phonetic_scan(query_token, hit_tokens, used, tolerant, idx + 1, st)
    ELSE LET hit_token == hit_tokens[idx + 1]
             min_len == MinI(Len(query_token), Len(hit_token))
         IN  IF query_token = hit_token
             THEN [best_idx |-> idx, is_tolerant |-> FALSE]
             ELSE IF min_len >= 4 /\ (startswith(query_token, hit_token)
                                      \/ startswith(hit_token, query_token))
             THEN phonetic_scan(query_token, hit_tokens, used, tolerant, idx + 1,
                                [best_idx |-> idx, is_tolerant |-> FALSE])
             ELSE IF tolerant /\ min_len >= 6
                     /\ distance(query_token, hit_token, 1) <= 1
             THEN phonetic_scan(query_token, hit_tokens, used, tolerant, idx + 1,
                                [best_idx |-> idx, is_tolerant |-> TRUE])
             ELSE phonetic_scan(query_token, hit_tokens, used, tolerant, idx + 1, st)

\* the outer loop of match_phonetic_tokens over query_tokens[k..]
RECURSIVE phonetic_loop(_, _, _, _, _)
phonetic_loop(query_tokens, hit_tokens, tolerant, k, acc) ==
    IF k > Len(query_tokens) THEN acc
    ELSE LET st == phonetic_scan(query_tokens[k], hit_tokens, acc.used, tolerant, 0,
                                 [best_idx |-> None, is_tolerant |-> FALSE])
         IN  IF st.best_idx # None
             THEN phonetic_loop(query_tokens, hit_tokens, tolerant, k + 1,
                    [used |-> acc.used \cup {st.best_idx},
                     found |-> acc.found + 1,
                     tolerant_used |-> acc.tolerant_used \/ st.is_tolerant])
             ELSE phonetic_loop(query_tokens, hit_tokens, tolerant, k + 1, acc)

match_phonetic_tokens(query_tokens, hit_tokens, tolerant) ==
    LET r == phonetic_loop(query_tokens, hit_tokens, tolerant, 1,
                           [used |-> {}, found |-> 0, tolerant_used |-> FALSE])
    IN  [found |-> r.found, tolerant_used |-> r.tolerant_used]

\* mutant: the score is 8 * ratio without the caps
phonetic_score_uncapped(ratio) == RMul(RI(8), ratio)

\* lines 73-79 / 89-96
phonetic_score_of(ratio) ==
    LET score == RMul(RI(8), ratio)
    IN  IF ratio = RI(1) THEN RMin(R(75, 10), score)
        ELSE IF RGe(ratio, R(66, 100)) THEN RMin(RI(7), score)
        ELSE RMin(RI(6), score)

no_phonetic == [present |-> FALSE, score |-> RI(0), ratio |-> RI(0),
                match_type |-> "phonetic"]

\* present = FALSE stands for the None result
calculate_phonetic_score(h, qd) ==
    LET q == strip(qd.soundex)
        hs == strip(h.name_soundex)
        q_tokens == phonetic_tokens(q)
        h_tokens == phonetic_tokens(hs)
        strict == match_phonetic_tokens(q_tokens, h_tokens, FALSE)
        ratio == R(strict.found, Len(q_tokens))
        score == phonetic_score_of(ratio)
        tol == match_phonetic_tokens(q_tokens, h_tokens, TRUE)
        ratio_tol == R(tol.found, Len(q_tokens))
    IN  IF Len(q) = 0 \/ Len(hs) = 0 THEN no_phonetic
        ELSE IF Len(q_tokens) = 0 \/ Len(h_tokens) = 0 THEN no_phonetic
        ELSE IF RLt(score, RI(6)) /\ RGt(ratio_tol, ratio)
        THEN [present |-> TRUE, score |-> phonetic_score_of(ratio_tol),
              ratio |-> ratio_tol, match_type |-> "phonetic_tolerant"]
        ELSE [present |-> TRUE, score |-> score, ratio |-> ratio,
              match_type |-> "phonetic_strict"]

-----------------------------------------------------------------------------
(* FinalScorer (FieldEvaluator.calculate_final_score) *)

\* mutant: the phonetic score is ignored
calculate_final_score_text_only(main_score, phon_score) ==
    [score |-> main_score.total_score, type |-> main_score.match_type,
     method |-> "text_only"]

\* mutant: the weighted mean of case 2 is never taken below the text score
calculate_final_score_never_lower(main_score, phon_score) ==
    LET text_score == main_score.total_score
        phon_value == IF phon_score.present THEN phon_score.score ELSE RI(0)
        text_weight == RAdd(R(7, 10), RDiv(text_score, RI(40)))
        phon_weight == RSub(RI(1), text_weight)
        hybrid_score == RAdd(RMul(text_score, text_weight), RMul(phon_value, phon_weight))
    IN  IF RGe(text_score, R(85, 10))
        THEN [score |-> text_score, type |-> main_score.match_type,
              method |-> "text_only"]
        ELSE IF RLe(RI(6), text_score) /\ RLt(text_score, R(85, 10))
                /\ RGt(phon_value, RI(0))
        THEN [score |-> RMax(text_score, round2(hybrid_score)), type |-> "hybrid",
              method |-> "weighted"]
        ELSE IF RGt(phon_value, text_score)
        THEN [score |-> phon_value,
              type |-> IF phon_score.present THEN phon_score.match_type ELSE "phonetic",
              method |-> "phonetic_fallback"]
        ELSE [score |-> text_score, type |-> main_score.match_type,
              method |-> "text_only"]

calculate_final_score(main_score, phon_score) ==
    LET text_score == main_score.total_score
        phon_value == IF phon_score.present THEN phon_score.score ELSE RI(0)
        text_weight == RAdd(R(7, 10), RDiv(text_score, RI(40)))
        phon_weight == RSub(RI(1), text_weight)
        hybrid_score == RAdd(RMul(text_score, text_weight), RMul(phon_value, phon_weight))
    IN  IF RGe(text_score, R(85, 10))
        THEN [score |-> text_score, type |-> main_score.match_type,
              method |-> "text_only"]
        ELSE IF RLe(RI(6), text_score) /\ RLt(text_score, R(85, 10))
                /\ RGt(phon_value, RI(0))
        THEN [score |-> round2(hybrid_score), type |-> "hybrid", method |-> "weighted"]
        ELSE IF RGt(phon_value, text_score)
        THEN [score |-> phon_value,
              type |-> IF phon_score.present THEN phon_score.match_type ELSE "phonetic",
              method |-> "phonetic_fallback"]
        ELSE [score |-> text_score, type |-> main_score.match_type,
              method |-> "text_only"]

-----------------------------------------------------------------------------
(* SearchUtils (app/search/search_utils.py) *)

\* Python truth value of an id: None and 0 are falsy
truthy(v) == v # None /\ v # 0

\* a or b
py_or(a, b) == IF truthy(a) THEN a ELSE b

\* lines 63-82 without the cap of lines 69-74
enrich_uncapped(h, final_score) ==
    [_score |-> final_score.score,
     _match_type |-> final_score.type,
     _match_method |-> final_score.method,
     _match_priority |-> type_priority(final_score.type)]
    @@ h

\* mutant: the cap of lines 69-74 is not applied
classify_result_uncapped(h, qd) ==
    enrich_uncapped(h, calculate_final_score(calculate_main_score(h, qd),
                                             calculate_phonetic_score(h, qd)))

\* lines 63-82 of classify_result: the enriched copy of the hit
enrich(h, final_score) ==
    LET is_not_exact == final_score.type # "exact_full"
        is_high_score == RGe(final_score.score, EXACT_THRESHOLD)
        capped == is_not_exact /\ is_high_score
    IN  [_score |-> IF capped THEN EXACT_FULL_CAP ELSE final_score.score,
         _match_type |-> final_score.type,
         _match_method |-> final_score.method,
         _match_priority |-> type_priority(final_score.type)]
        @@ (IF capped THEN [_capped |-> TRUE] ELSE empty_dict)
        @@ h

classify_result(h, qd) ==
    enrich(h, calculate_final_score(calculate_main_score(h, qd),
                                    calculate_phonetic_score(h, qd)))

\* d.get(key, default) on a dict of floats
get_or(d, key, default) == IF key \in DOMAIN d THEN d[key] ELSE default

compare_penalty_indices(a, b) ==
    LET extra_a == get_or(a, "extra_length_ratio", RI(0))
        extra_b == get_or(b, "extra_length_ratio", RI(0))
        ratio_a == get_or(a, "longueur_ratio", RI(1))
        ratio_b == get_or(b, "longueur_ratio", RI(1))
        dist_a == get_or(a, "distance_moyenne", RI(0))
        dist_b == get_or(b, "distance_moyenne", RI(0))
    IN  IF RGt(RAbs(RSub(extra_a, extra_b)), R(1, 100))
        THEN IF RLt(extra_a, extra_b) THEN -1 ELSE 1
        ELSE IF RGt(RAbs(RSub(ratio_a, ratio_b)), R(1, 1000))
        THEN IF RGt(ratio_a, ratio_b) THEN -1 ELSE 1
        ELSE IF RLt(dist_a, dist_b) THEN -1
        ELSE IF RGt(dist_a, dist_b) THEN 1
        ELSE 0

\* result of a comparison that raises TypeError
TypeError == 2

\* a.get('id') or a.get('id_etab', ''): an absent id_etab gives ''
sort_id(a) ==
    IF truthy(a.id) THEN a.id
    ELSE IF a.id_etab = None THEN EmptyStr ELSE a.id_etab

\* step 4 of compare_results: '<' between an int and '' raises TypeError
compare_ids(id_a, id_b) ==
    IF (id_a = EmptyStr) # (id_b = EmptyStr) THEN TypeError
    ELSE IF id_a < id_b THEN -1
    ELSE IF id_a > id_b THEN 1
    ELSE 0

compare_results(a, b) ==
    LET score_a == a._score
        score_b == b._score
        priority_a == a._match_priority
        priority_b == b._match_priority
        has_penalties == "_penalty_indices" \in DOMAIN a /\ "_penalty_indices" \in DOMAIN b
        pen_cmp == IF has_penalties
                   THEN compare_penalty_indices(a._penalty_indices, b._penalty_indices)
                   ELSE 0
    IN  IF score_a # score_b
        THEN IF RGt(score_a, score_b) THEN -1 ELSE 1
        ELSE IF priority_a # priority_b
        THEN IF priority_a < priority_b THEN -1 ELSE 1
        ELSE IF pen_cmp # 0 THEN pen_cmp
        ELSE compare_ids(sort_id(a), sort_id(b))

\* sorted(results, key=cmp_to_key(compare_results)): CPython's list.sort on a
\* list shorter than 64 items is count_run followed by binarysort, and K(a) < K(b)
\* is compare_results(a, b) < 0.  A result [ok |-> FALSE] is a raised TypeError.
is_lt(a, b) == compare_results(a, b) = -1
raises(a, b) == compare_results(a, b) = TypeError

reverse(l) == [i \in 1..Len(l) |-> l[Len(l) + 1 - i]]

\* count_run: length of the initial run of l, from item i (1-based) on
RECURSIVE count_run(_, _, _)
count_run(l, i, descending) ==
    IF i > Len(l) THEN [ok |-> TRUE, n |-> Len(l)]
    ELSE IF raises(l[i], l[i - 1]) THEN [ok |-> FALSE, n |-> 0]
    ELSE IF is_lt(l[i], l[i - 1]) = descending THEN count_run(l, i + 1, descending)
    ELSE [ok |-> TRUE, n |-> i - 1]

\* the binary search of binarysort for pivot in l[lo+1..hi] (0-based lo, hi)
RECURSIVE binary_search(_, _, _, _)
binary_search(l, pivot, lo, hi) ==
    IF lo >= hi THEN [ok |-> TRUE, at |-> lo]
    ELSE LET p == lo + ((hi - lo) \div 2)
         IN  IF raises(pivot, l[p + 1]) THEN [ok |-> FALSE, at |-> 0]
             ELSE IF is_lt(pivot, l[p + 1]) THEN binary_search(l, pivot, lo, p)
             ELSE binary_search(l, pivot, p + 1, hi)

\* binarysort: l[1..start] is sorted, insert l[start+1..]
RECURSIVE binarysort(_, _)
binarysort(l, start) ==
    IF start >= Len(l) THEN [ok |-> TRUE, list |-> l]
    ELSE LET pivot == l[start + 1]
             pos == binary_search(l, pivot, 0, start)
         IN  IF ~pos.ok THEN [ok |-> FALSE, list |-> <<>>]
             ELSE binarysort(SubSeq(l, 1, pos.at) \o <<pivot>>
                             \o SubSeq(l, pos.at + 1, start)
                             \o SubSeq(l, start + 2, Len(l)), start + 1)

\* mutant: the list is returned in the order it was scored
sort_results_unsorted(results) == [ok |-> TRUE, list |-> results]

sort_results(results) ==
    IF Len(results) < 2 THEN [ok |-> TRUE, list |-> results]
    ELSE IF raises(results[2], results[1]) THEN [ok |-> FALSE, list |-> <<>>]
    ELSE LET descending == is_lt(results[2], results[1])
             run == count_run(results, 3, descending)
         IN  IF ~run.ok THEN [ok |-> FALSE, list |-> <<>>]
             ELSE binarysort(IF descending
                             THEN reverse(SubSeq(results, 1, run.n))
                                  \o SubSeq(results, run.n + 1, Len(results))
                             ELSE results, run.n)

priority_order == <<"name_search", "no_space", "standard", "phonetic">>

\* hit_id of deduplicate_results: id or id_etab, else the first 200
\* characters of the name
hit_id_of(h) ==
    LET v == py_or(h.id, h.id_etab)
    IN  IF v = None
        THEN [kind |-> "name", num |-> 0, text |-> SubSeq(h.name, 1, MinI(200, Len(h.name)))]
        ELSE [kind |-> "id", num |-> v, text |-> <<>>]

\* the inner loop of deduplicate_results over strategy_results[i..];
\* acc = [unique, seen]
RECURSIVE dedup_hits(_, _, _, _)
dedup_hits(strategy, strategy_results, i, acc) ==
    IF i > Len(strategy_results) THEN acc
    ELSE LET h == strategy_results[i]
             hit_id == hit_id_of(h)
         IN  IF hit_id \notin acc.seen
             THEN dedup_hits(strategy, strategy_results, i + 1,
                    [unique |-> Append(acc.unique,
                                       [_discovery_strategy |-> strategy] @@ h),
                     seen |-> acc.seen \cup {hit_id}])
             ELSE dedup_hits(strategy, strategy_results, i + 1, acc)

\* the outer loop of deduplicate_results over order[k..]
RECURSIVE dedup_strategies(_, _, _, _)
dedup_strategies(order, results, k, acc) ==
    IF k > Len(order) THEN acc
    ELSE LET strategy == order[k]
         IN  IF strategy \notin DOMAIN results
             THEN dedup_strategies(order, results, k + 1, acc)
             ELSE dedup_strategies(order, results, k + 1,
                    dedup_hits(strategy, results[strategy].hits, 1, acc))

\* mutant: the strategies are visited from the lowest priority up
deduplicate_results_reversed(results) ==
    dedup_strategies(reverse(priority_order), results, 1,
                     [unique |-> <<>>, seen |-> {}]).unique

deduplicate_results(results) ==
    dedup_strategies(priority_order, results, 1, [unique |-> <<>>, seen |-> {}]).unique

\* the hits of one strategy list after the inner loop of deduplicate_results:
\* unique.append(hit) appends the dict of the list itself, and
\* hit['_discovery_strategy'] = strategy writes into it
RECURSIVE discovered_hits(_, _, _, _)
discovered_hits(strategy, strategy_results, i, seen) ==
    IF i > Len(strategy_results) THEN <<>>
    ELSE IF hit_id_of(strategy_results[i]) \notin seen
    THEN <<[_discovery_strategy |-> strategy] @@ strategy_results[i]>>
         \o discovered_hits(strategy, strategy_results, i + 1,
                            seen \cup {hit_id_of(strategy_results[i])})
    ELSE <<strategy_results[i]>>
         \o discovered_hits(strategy, strategy_results, i + 1, seen)

\* seen when the outer loop of deduplicate_results reaches order[k]
seen_before(order, results, k) ==
    dedup_strategies(SubSeq(order, 1, k - 1), results, 1, [unique |-> <<>>, seen |-> {}]).seen

\* the dict given to deduplicate_results, after the call
results_after_dedup(results) ==
    [s \in DOMAIN results |->
        IF \E k \in 1..Len(priority_order) : priority_order[k] = s
        THEN [results[s] EXCEPT !.hits =
                discovered_hits(s, results[s].hits, 1,
                    seen_before(priority_order, results,
                        CHOOSE k \in 1..Len(priority_order) : priority_order[k] = s))]
        ELSE results[s]]

\* lines 234-236: a scored hit is kept when it reaches MIN_SCORE
keep_scored(scored_hit) ==
    IF RGe(scored_hit._score, MIN_SCORE) THEN <<scored_hit>> ELSE <<>>

\* step 2 of process_results: score every hit, keep those reaching MIN_SCORE
RECURSIVE score_and_filter(_, _, _)
score_and_filter(hits, qd, i) ==
    IF i > Len(hits) THEN <<>>
    ELSE keep_scored(classify_result(hits[i], qd)) \o score_and_filter(hits, qd, i + 1)

is_exact(h) == RGe(h._score, EXACT_THRESHOLD)

\* steps 2-3 of process_results on the deduplicated list
score_and_sort(dd, qd) == sort_results(score_and_filter(dd, qd, 1))

\* mutant: the exact hits do not displace the other survivors
process_results_no_short_circuit(results, qd) ==
    LET sorted_results == score_and_sort(deduplicate_results(results), qd)
        exact_results == SelectSeq(sorted_results.list, is_exact)
    IN  IF ~sorted_results.ok
        THEN [status |-> "TypeError", hits |-> <<>>, total |-> 0,
              has_exact_results |-> FALSE, exact_count |-> 0,
              total_before_filter |-> Len(deduplicate_results(results))]
        ELSE [status |-> "ok", hits |-> sorted_results.list,
              total |-> Len(sorted_results.list),
              has_exact_results |-> Len(exact_results) > 0,
              exact_count |-> Len(exact_results),
              total_before_filter |-> Len(deduplicate_results(results))]

\* step 4 and the return of process_results; status "TypeError": the sort
\* raised and nothing is returned
select_final_hits(total_before_filter, sorted_results) ==
    LET exact_results == SelectSeq(sorted_results.list, is_exact)
        has_exact_results == Len(exact_results) > 0
        final_hits == IF has_exact_results THEN exact_results ELSE sorted_results.list
    IN  IF ~sorted_results.ok
        THEN [status |-> "TypeError", hits |-> <<>>, total |-> 0,
              has_exact_results |-> FALSE, exact_count |-> 0,
              total_before_filter |-> total_before_filter]
        ELSE [status |-> "ok", hits |-> final_hits, total |-> Len(final_hits),
              has_exact_results |-> has_exact_results,
              exact_count |-> Len(exact_results),
              total_before_filter |-> total_before_filter]

\* steps 1-3 of process_results, from the deduplicated list on
rank_deduplicated(dd, qd) == select_final_hits(Len(dd), score_and_sort(dd, qd))

process_results(results, qd) == rank_deduplicated(deduplicate_results(results), qd)

-----------------------------------------------------------------------------
(* Inputs: texts, QueryData and candidate documents *)

\* bound: number of words of a generated name_search text
MaxFieldWords == 3
\* bound: number of words of a generated name text
MaxNameWords == 2

w_ab == <<"a", "b">>
w_cd == <<"c", "d">>
w_c == <<"c">>
w_abcd == <<"a", "b", "c", "d">>
w_Ab == <<"A", "b">>
w_kf == <<"k", "f">>

\* ' '.join(ws)
RECURSIVE join(_)
join(ws) ==
    IF Len(ws) = 0 THEN <<>>
    ELSE IF Len(ws) = 1 THEN ws[1]
    ELSE ws[1] \o <<" ">> \o join(Tail(ws))

\* all texts of at most n words over the vocabulary voc
texts(voc, n) == {join(ws) : ws \in UNION {[1..k -> voc] : k \in 0..n}}

\* cleaned.replace(' ', '')
remove_spaces(s) == SelectSeq(s, LAMBDA c : c # " ")

\* a QueryData as the preprocessing builds it from the original text, the
\* cleaned text and the soundex
mk_query(original, cleaned, soundex) ==
    [original |-> original, cleaned |-> cleaned,
     no_space |-> remove_spaces(cleaned), soundex |-> soundex,
     wordsCleaned |-> words_of(cleaned),
     wordsOriginal |-> words_of(original),
     wordsNoSpace |-> words_of(remove_spaces(cleaned))]

mk_hit(id, id_etab, name, name_search, name_no_space, name_soundex) ==
    [id |-> id, id_etab |-> id_etab, name |-> name, name_search |-> name_search,
     name_no_space |-> name_no_space, name_soundex |-> name_soundex]

Soundexes == {<<>>, w_kf, join(<<w_kf, w_ab>>)}

Queries ==
    {mk_query(o, lower(o), sx) :
        o \in {w_Ab, join(<<w_ab, w_cd>>), w_abcd}, sx \in Soundexes}
    \cup {mk_query(w_Ab, <<>>, w_kf)}

ScoreHits ==
    {mk_hit(1, None, nm, ns, nsp, sx) :
        nm \in texts({w_ab, w_c}, MaxNameWords) \cup {w_Ab},
        ns \in texts({w_ab, w_cd, w_abcd}, MaxFieldWords),
        nsp \in {<<>>, w_abcd},
        sx \in {<<>>, w_kf}}

-----------------------------------------------------------------------------
(* Scoring of one candidate: SearchUtils.classify_result *)

no_value == <<>>

\* the tasks of _parallel_strategies are not followed one by one
gather_unused == completion = no_value

\* process_results has not returned
argument_unused == all_results_after = no_value

\* StringDistance.distance is not called on its own
distance_unused == lru = no_value /\ distance_calls = no_value

\* disperse_results is not called
dispersion_unused == geo_hits_in = no_value /\ dispersion = no_value

\* evaluate_field is not called on its own
field_unused == field_eval = no_value

\* the evaluator is the one SearchUtils() builds and no word is being matched
evaluator_unused ==
    /\ synonyms = default_synonyms
    /\ match_query = no_value
    /\ match_candidate = no_value
    /\ word_match = no_value

ScoreInit ==
    /\ query_data \in Queries
    /\ hit \in ScoreHits
    /\ scored = no_value
    /\ all_results = no_value
    /\ dedup = no_value
    /\ processed = no_value
    /\ index = no_value
    /\ cache = no_value
    /\ options = no_value
    /\ pc = "classify"
    /\ cached_result = no_value
    /\ full_response = no_value
    /\ response = no_value
    /\ calls = <<>>
    /\ evaluator_unused
    /\ field_unused
    /\ dispersion_unused
    /\ distance_unused
    /\ argument_unused
    /\ gather_unused

ClassifyResult ==
    /\ pc = "classify"
    /\ scored' = classify_result(hit, query_data)
    /\ pc' = "classified"
    /\ UNCHANGED <<query_data, hit, all_results, dedup, processed, index, cache,
                   options, cached_result, full_response, response, calls>>
    /\ UNCHANGED evaluator_vars
    /\ UNCHANGED field_vars
    /\ UNCHANGED dispersion_vars
    /\ UNCHANGED distance_vars
    /\ UNCHANGED argument_vars
    /\ UNCHANGED gather_vars

ScoreNext == ClassifyResult

ScoreSpec == ScoreInit /\ [][ScoreNext]_vars

-----------------------------------------------------------------------------
(* The ranker on a strategy-keyed result map: SearchUtils.process_results *)

\* bound: number of hits in the strategy lists of one result map
MaxHits == 3

w_ac == <<"a", "c">>

\* candidate documents for the query "Ab" (cleaned "ab")
doc_exact == mk_hit(3, None, w_Ab, w_ab, w_ab, <<>>)
doc_extra2 == mk_hit(2, None, w_ab, join(<<w_ab, w_cd>>), <<>>, <<>>)
doc_fuzzy == mk_hit(4, None, w_ab, w_ac, <<>>, <<>>)
doc_zero_b == mk_hit(0, None, w_ab, w_ac, <<>>, <<>>)
doc_zero_a == mk_hit(0, None, w_c, join(<<w_ab, w_cd>>), <<>>, <<>>)
doc_etab == mk_hit(None, 3, w_ab, join(<<w_ab, w_c>>), <<>>, w_kf)
doc_empty == mk_hit(5, None, <<>>, <<>>, <<>>, <<>>)

RankDocs == {doc_exact, doc_extra2, doc_zero_a, doc_zero_b, doc_etab, doc_fuzzy}

RankQueries == {mk_query(w_Ab, w_ab, <<>>), mk_query(w_Ab, w_ab, w_kf)}

lists_up_to(S, n) == UNION {[1..k -> S] : k \in 0..n}

\* the strategies _parallel_strategies runs for qd
strategies_of(qd) ==
    {"name_search", "no_space", "standard"}
    \cup (IF Len(qd.soundex) > 0 THEN {"phonetic"} ELSE {})

RankInit ==
    /\ query_data \in RankQueries
    /\ \E l1 \in lists_up_to(RankDocs, MaxHits) :
         \E l2 \in lists_up_to(RankDocs, MaxHits - Len(l1)) :
           \E l3 \in lists_up_to(RankDocs, MaxHits - Len(l1) - Len(l2)) :
             \E l4 \in lists_up_to(RankDocs, MaxHits - Len(l1) - Len(l2) - Len(l3)) :
               all_results =
                 [s \in strategies_of(query_data) |->
                    [hits |-> IF s = "name_search" THEN l1
                              ELSE IF s = "no_space" THEN l2
                              ELSE IF s = "standard" THEN l3
                              ELSE l4]]
    /\ hit = no_value
    /\ scored = no_value
    /\ dedup = no_value
    /\ processed = no_value
    /\ index = no_value
    /\ cache = no_value
    /\ options = no_value
    /\ pc = "rank"
    /\ cached_result = no_value
    /\ full_response = no_value
    /\ response = no_value
    /\ calls = <<>>
    /\ evaluator_unused
    /\ field_unused
    /\ dispersion_unused
    /\ distance_unused
    /\ argument_unused
    /\ gather_unused

ProcessResults ==
    /\ pc = "rank"
    /\ dedup' = deduplicate_results(all_results)
    /\ processed' = process_results(all_results, query_data)
    /\ all_results_after' = results_after_dedup(all_results)
    /\ pc' = "ranked"
    /\ UNCHANGED <<query_data, hit, scored, all_results, index, cache, options,
                   cached_result, full_response, response, calls>>
    /\ UNCHANGED evaluator_vars
    /\ UNCHANGED field_vars
    /\ UNCHANGED dispersion_vars
    /\ UNCHANGED distance_vars
    /\ UNCHANGED gather_vars

RankerInit == ScoreInit \/ RankInit

RankerNext == ClassifyResult \/ ProcessResults

RankerSpec == RankerInit /\ [][RankerNext]_vars

-----------------------------------------------------------------------------
(* SearchService (app/search/search_service.py) and the cache *)

\* bound: largest options.limit of a request
MaxLimit == 2
\* bound: largest options.offset of a request
MaxOffset == 1
\* bound: largest options.per_page of a request
MaxPerPage == 2
\* bound: length of the backend's name_search result list
MaxIndexed == 2

\* l[a:b] for 0 <= a
slice(l, a, b) == SubSeq(l, a + 1, MinI(b, Len(l)))

doc_exact_b == mk_hit(6, None, w_ab, w_ab, <<>>, <<>>)

ServiceDocs == {doc_exact, doc_exact_b}

\* the structured query of the requests; its soundex is not empty, so all
\* four strategies are retrieved
service_query == mk_query(w_Ab, w_ab, w_kf)

AllOptions ==
    [limit : 1..MaxLimit, offset : 0..MaxOffset, per_page : 1..MaxPerPage]

\* cache_options / cache_key of search: per_page and offset are masked.  The
\* index name and user_id are the same for all requests of the model (an index
\* that is not a restaurant index, so no enrichment is applied).
cache_key_of(qd, opts) ==
    [qdata |-> qd, cache_options |-> [opts EXCEPT !.per_page = -1, !.offset = 0]]

CacheKeys == {cache_key_of(service_query, o) : o \in AllOptions}

no_entry == [present |-> FALSE, json |-> no_value]

\* SearchResponse.model_dump_json / SearchResponse.parse_raw
model_dump_json(r) == [present |-> TRUE, json |-> r]
parse_raw(c) == c.json

\* index.search(query, limit=..., offset=...) on the attribute of strategy s
_meili_search(s, opts) ==
    [hits |-> slice(index[s], opts.offset, opts.offset + opts.limit),
     estimated_total_hits |-> Len(index[s])]

_parallel_strategies(qd, opts) ==
    [s \in strategies_of(qd) |-> _meili_search(s, opts)]

\* the SearchResponse built by _handle_advanced_search from process_results
_handle_advanced_search(p, qd, opts) ==
    LET hits == slice(p.hits, 0, opts.limit)
    IN  [hits |-> hits,
         total |-> Len(hits),
         has_exact_results |-> p.has_exact_results,
         exact_count |-> p.exact_count,
         total_before_filter |-> p.total_before_filter,
         preprocessing |-> qd]

\* hits[offset : offset + per_page] put into a copy of the response
paginate(r, opts) ==
    [r EXCEPT !.hits = slice(r.hits, opts.offset, opts.offset + opts.per_page)]

Init ==
    /\ \E l1 \in lists_up_to(ServiceDocs, MaxIndexed) :
         index = [s \in {"name_search", "no_space", "standard", "phonetic"} |->
                    IF s = "name_search" THEN l1
                    ELSE IF s = "no_space" THEN <<doc_empty>>
                    ELSE IF s = "standard" THEN <<doc_fuzzy>>
                    ELSE <<doc_etab>>]
    /\ cache = [k \in CacheKeys |-> no_entry]
    /\ query_data = no_value
    /\ options = no_value
    /\ hit = no_value
    /\ scored = no_value
    /\ all_results = no_value
    /\ dedup = no_value
    /\ processed = no_value
    /\ pc = "idle"
    /\ cached_result = no_entry
    /\ full_response = no_value
    /\ response = no_value
    /\ calls = <<>>
    /\ evaluator_unused
    /\ field_unused
    /\ dispersion_unused
    /\ distance_unused
    /\ argument_unused
    /\ gather_unused

\* a caller invokes search(index_name, qdata, options); the locals of the
\* call start unset
Search ==
    /\ pc \in {"idle", "done", "failed"}
    /\ query_data' = service_query
    /\ options' \in AllOptions
    /\ pc' = "cache_get"
    /\ cached_result' = no_entry
    /\ full_response' = no_value
    /\ response' = no_value
    /\ calls' = <<>>
    /\ all_results' = no_value
    /\ dedup' = no_value
    /\ processed' = no_value
    /\ UNCHANGED <<hit, scored, index, cache>>
    /\ UNCHANGED evaluator_vars
    /\ UNCHANGED field_vars
    /\ UNCHANGED dispersion_vars
    /\ UNCHANGED distance_vars
    /\ UNCHANGED argument_vars
    /\ UNCHANGED gather_vars

\* lines 127-138: cache.get returns an entry; the cached response is
\* paginated and returned
CacheHit ==
    /\ pc = "cache_get"
    /\ cache[cache_key_of(query_data, options)].present
    /\ cached_result' = cache[cache_key_of(query_data, options)]
    /\ calls' = Append(calls, "cache.get")
    /\ response' = paginate(parse_raw(cache[cache_key_of(query_data, options)]), options)
    /\ pc' = "done"
    /\ UNCHANGED <<query_data, hit, scored, all_results, dedup, processed, index,
                   cache, options, full_response>>
    /\ UNCHANGED evaluator_vars
    /\ UNCHANGED field_vars
    /\ UNCHANGED dispersion_vars
    /\ UNCHANGED distance_vars
    /\ UNCHANGED argument_vars
    /\ UNCHANGED gather_vars

\* lines 127-140: cache.get returns None
CacheMiss ==
    /\ pc = "cache_get"
    /\ ~cache[cache_key_of(query_data, options)].present
    /\ cached_result' = no_entry
    /\ calls' = Append(calls, "cache.get")
    /\ pc' = "execute"
    /\ UNCHANGED <<query_data, hit, scored, all_results, dedup, processed, index,
                   cache, options, full_response, response>>
    /\ UNCHANGED evaluator_vars
    /\ UNCHANGED field_vars
    /\ UNCHANGED dispersion_vars
    /\ UNCHANGED distance_vars
    /\ UNCHANGED argument_vars
    /\ UNCHANGED gather_vars

\* lines 142-144: _execute_search -> _handle_advanced_search; a TypeError of
\* the ranker propagates and search fails
ExecuteSearch ==
    /\ pc = "execute"
    /\ calls' = Append(calls, "_execute_search")
    /\ all_results' = _parallel_strategies(query_data, options)
    /\ dedup' = deduplicate_results(all_results')
    /\ processed' = process_results(all_results', query_data)
    /\ IF processed'.status = "ok"
       THEN /\ full_response' = _handle_advanced_search(processed', query_data, options)
            /\ pc' = "cache_set"
       ELSE /\ full_response' = no_value
            /\ pc' = "failed"
    /\ UNCHANGED <<query_data, hit, scored, index, cache, options, cached_result,
                   response>>
    /\ UNCHANGED evaluator_vars
    /\ UNCHANGED field_vars
    /\ UNCHANGED dispersion_vars
    /\ UNCHANGED distance_vars
    /\ UNCHANGED argument_vars
    /\ UNCHANGED gather_vars

\* outcome of a _meili_search task whose request to the backend raised
MeiliError == [error |-> "MeilisearchError"]

\* the tasks of _parallel_strategies when those of `failing` raise
gather_outcomes(qd, opts, failing) ==
    [s \in strategies_of(qd) |->
        IF s \in failing THEN MeiliError ELSE _meili_search(s, opts)]

\* the strategies whose retrieval raised in the last fan-out
failed_strategies ==
    IF all_results = no_value THEN {}
    ELSE {s \in DOMAIN all_results : all_results[s] = MeiliError}

\* the results of the tasks that returned
completed_results(outcomes) ==
    [s \in {t \in DOMAIN outcomes : outcomes[t] # MeiliError} |-> outcomes[s]]

\* mutant: the exceptions are dropped (gather with return_exceptions=True and
\* a filter) and the search goes on with the strategies that returned
ExecuteSearchFails_partial ==
    /\ pc = "execute"
    /\ calls' = Append(calls, "_execute_search")
    /\ \E failing \in (SUBSET strategies_of(query_data)) \ {{}} :
         all_results' = gather_outcomes(query_data, options, failing)
    /\ dedup' = deduplicate_results(completed_results(all_results'))
    /\ processed' = process_results(completed_results(all_results'), query_data)
    /\ IF processed'.status = "ok"
       THEN /\ full_response' = _handle_advanced_search(processed', query_data, options)
            /\ pc' = "cache_set"
       ELSE /\ full_response' = no_value
            /\ pc' = "failed"
    /\ UNCHANGED <<query_data, hit, scored, index, cache, options, cached_result,
                   response>>
    /\ UNCHANGED evaluator_vars
    /\ UNCHANGED field_vars
    /\ UNCHANGED dispersion_vars
    /\ UNCHANGED distance_vars
    /\ UNCHANGED argument_vars
    /\ UNCHANGED gather_vars

\* lines 79-83, 142-144: some _meili_search task raises; asyncio.gather
\* re-raises it to _parallel_strategies, and nothing between there and the
\* caller of search catches it.  all_results records the outcomes of the
\* tasks; no mapping is built from them.
ExecuteSearchFails ==
    /\ pc = "execute"
    /\ calls' = Append(calls, "_execute_search")
    /\ \E failing \in (SUBSET strategies_of(query_data)) \ {{}} :
         all_results' = gather_outcomes(query_data, options, failing)
    /\ pc' = "failed"
    /\ UNCHANGED <<query_data, hit, scored, dedup, processed, index,
                   cache, options, cached_result, full_response, response>>
    /\ UNCHANGED evaluator_vars
    /\ UNCHANGED field_vars
    /\ UNCHANGED dispersion_vars
    /\ UNCHANGED distance_vars
    /\ UNCHANGED argument_vars
    /\ UNCHANGED gather_vars

\* mutant: the page returned to the caller is what gets stored
CacheSet_paginated ==
    /\ pc = "cache_set"
    /\ cache' = [cache EXCEPT ![cache_key_of(query_data, options)] =
                    model_dump_json(paginate(full_response, options))]
    /\ calls' = Append(calls, "cache.set")
    /\ response' = paginate(full_response, options)
    /\ pc' = "done"
    /\ UNCHANGED <<query_data, hit, scored, all_results, dedup, processed, index,
                   options, cached_result, full_response>>
    /\ UNCHANGED evaluator_vars
    /\ UNCHANGED field_vars
    /\ UNCHANGED dispersion_vars
    /\ UNCHANGED distance_vars
    /\ UNCHANGED argument_vars
    /\ UNCHANGED gather_vars

\* lines 147-154: the full response is stored, then paginated and returned
CacheSet ==
    /\ pc = "cache_set"
    /\ cache' = [cache EXCEPT ![cache_key_of(query_data, options)] =
                    model_dump_json(full_response)]
    /\ calls' = Append(calls, "cache.set")
    /\ response' = paginate(full_response, options)
    /\ pc' = "done"
    /\ UNCHANGED <<query_data, hit, scored, all_results, dedup, processed, index,
                   options, cached_result, full_response>>
    /\ UNCHANGED evaluator_vars
    /\ UNCHANGED field_vars
    /\ UNCHANGED dispersion_vars
    /\ UNCHANGED distance_vars
    /\ UNCHANGED argument_vars
    /\ UNCHANGED gather_vars

\* expire=300: an entry leaves the cache when its TTL runs out
Expire ==
    /\ \E k \in CacheKeys :
         /\ cache[k].present
         /\ cache' = [cache EXCEPT ![k] = no_entry]
    /\ UNCHANGED <<query_data, hit, scored, all_results, dedup, processed, index,
                   options, pc, cached_result, full_response, response, calls>>
    /\ UNCHANGED evaluator_vars
    /\ UNCHANGED field_vars
    /\ UNCHANGED dispersion_vars
    /\ UNCHANGED distance_vars
    /\ UNCHANGED argument_vars
    /\ UNCHANGED gather_vars

Next ==
    \/ Search
    \/ CacheHit
    \/ CacheMiss
    \/ ExecuteSearch
    \/ ExecuteSearchFails
    \/ CacheSet
    \/ Expire

Spec == Init /\ [][Next]_vars

-----------------------------------------------------------------------------
(* Properties *)

\* the hits process_results returned, when it returned
returned_hits == IF pc = "ranked" /\ processed.status = "ok" THEN processed.hits ELSE <<>>

\* classify_result has scored a candidate that passes the MIN_SCORE filter
scored_survivor == pc = "classified" /\ RGe(scored._score, MIN_SCORE)

\* the blended score of a hit before the cap of classify_result
blended_score(h, qd) ==
    calculate_final_score(calculate_main_score(h, qd),
                          calculate_phonetic_score(h, qd)).score

\* C1: every returned hit has 0 <= _score <= 10.0, and a candidate whose
\* name_search tokens are exactly the query words and whose name matches the
\* original words is returned with _score = 10.0
C1_ScoreRange ==
    /\ \A i \in 1..Len(returned_hits) :
         /\ RLe(RI(0), returned_hits[i]._score)
         /\ RLe(returned_hits[i]._score, RI(10))
    /\ scored_survivor =>
         /\ RLe(RI(0), scored._score)
         /\ RLe(scored._score, RI(10))
    /\ (/\ pc = "classified"
        /\ Len(query_data.wordsCleaned) > 0
        /\ words_of(lower(hit.name_search)) = query_data.wordsCleaned
        /\ words_of(lower(hit.name)) = words_of(lower(query_data.original)))
       => scored._score = RI(10)

\* the scored survivors of the deduplicated list, as a set
survivors ==
    {s \in {classify_result(dedup[i], query_data) : i \in 1..Len(dedup)} :
        RGe(s._score, MIN_SCORE)}

exact_survivors == {s \in survivors : RGe(s._score, EXACT_THRESHOLD)}

\* C2: when some scored survivor has _score >= EXACT_THRESHOLD the returned
\* hits are exactly the survivors with _score >= EXACT_THRESHOLD, in sorted
\* order; otherwise they are all the survivors of the MIN_SCORE filter
C2_ExactShortCircuit ==
    (pc = "ranked" /\ processed.status = "ok") =>
        LET hits == processed.hits
            all == survivors
            exact == {s \in all : RGe(s._score, EXACT_THRESHOLD)}
            expected == IF exact # {} THEN exact ELSE all
        IN  /\ {hits[i] : i \in 1..Len(hits)} = expected
            /\ Len(hits) = Cardinality(expected)
            /\ \A i \in 1..Len(hits) - 1 : ~is_lt(hits[i + 1], hits[i])

\* witness of C2: exact hits were returned and other survivors were dropped
C2_Witness ==
    /\ pc = "ranked"
    /\ processed.status = "ok"
    /\ exact_survivors # {}
    /\ exact_survivors # survivors
    /\ Len(processed.hits) = Cardinality(exact_survivors)

\* C3 as claimed: every returned hit whose _match_type is not exact_full has
\* _score <= 9.99
C3_Original ==
    /\ \A i \in 1..Len(returned_hits) :
         returned_hits[i]._match_type # "exact_full"
            => RLe(returned_hits[i]._score, EXACT_FULL_CAP)
    /\ (scored_survivor /\ scored._match_type # "exact_full")
            => RLe(scored._score, EXACT_FULL_CAP)

\* what C3 requires of one returned hit h scored for the query qd
capped_below_threshold(h, qd) ==
    h._match_type # "exact_full" =>
        /\ RLt(h._score, EXACT_THRESHOLD)
        /\ IF RGe(blended_score(h, qd), EXACT_THRESHOLD)
           THEN h._score = EXACT_FULL_CAP /\ "_capped" \in DOMAIN h /\ h._capped
           ELSE h._score = blended_score(h, qd)

\* C3 (amended): every returned hit whose _match_type is not exact_full has
\* _score < EXACT_THRESHOLD: it is returned with _score = 9.99 and _capped =
\* true when its blended score reached 10.0, and with its blended score
\* (which may lie between 9.99 and 10.0) otherwise
C3_CappedBelowThreshold ==
    /\ \A i \in 1..Len(returned_hits) :
         capped_below_threshold(returned_hits[i], query_data)
    /\ scored_survivor => capped_below_threshold(scored, query_data)

\* witness of C3: a hit that is not exact_full was capped at 9.99
C3_Witness ==
    /\ scored_survivor
    /\ scored._match_type # "exact_full"
    /\ "_capped" \in DOMAIN scored
    /\ scored._score = EXACT_FULL_CAP

\* C4: the returned list is ordered by _score descending and, among equal
\* scores, by _match_priority ascending, where _match_priority is the
\* TYPE_PRIORITY entry of _match_type
C4_SortedByScoreThenPriority ==
    /\ \A i \in 1..Len(returned_hits) :
         returned_hits[i]._match_priority
            = TYPE_PRIORITY[returned_hits[i]._match_type]
    /\ \A i \in 1..Len(returned_hits) : \A j \in (i + 1)..Len(returned_hits) :
         /\ RGe(returned_hits[i]._score, returned_hits[j]._score)
         /\ returned_hits[i]._score = returned_hits[j]._score
              => returned_hits[i]._match_priority <= returned_hits[j]._match_priority

\* witness of C4: hits of equal score and different priority were returned,
\* above a hit of lower score
C4_Witness ==
    \E i \in 1..Len(returned_hits) : \E j \in 1..Len(returned_hits) :
      \E k \in 1..Len(returned_hits) :
        /\ RLt(returned_hits[k]._score, returned_hits[i]._score)
        /\ returned_hits[i]._score = returned_hits[j]._score
        /\ returned_hits[i]._match_priority < returned_hits[j]._match_priority


\* the penalties of the winning field of a returned hit
winning_penalties_of(h) == calculate_main_score(h, query_data)._penalty_indices

\* the order C5 requires of a hit with penalties pa placed before a hit with
\* penalties pb, ids aside
penalties_in_order(pa, pb) ==
    LET extra_a == get_or(pa, "extra_length_ratio", RI(0))
        extra_b == get_or(pb, "extra_length_ratio", RI(0))
        ratio_a == get_or(pa, "longueur_ratio", RI(1))
        ratio_b == get_or(pb, "longueur_ratio", RI(1))
        dist_a == get_or(pa, "distance_moyenne", RI(0))
        dist_b == get_or(pb, "distance_moyenne", RI(0))
    IN  IF RGt(RAbs(RSub(extra_a, extra_b)), R(1, 100)) THEN RLt(extra_a, extra_b)
        ELSE IF RGt(RAbs(RSub(ratio_a, ratio_b)), R(1, 1000)) THEN RGt(ratio_a, ratio_b)
        ELSE RLe(dist_a, dist_b)

\* C5: among returned hits of equal _score and equal _match_priority the
\* penalties of the winning field decide the order before the ids do: the
\* smaller extra_length_ratio (beyond 0.01) first, then the larger
\* length ratio (beyond 0.001), then the smaller average distance
C5_PenaltyTieBreak ==
    \A i \in 1..Len(returned_hits) - 1 :
        LET a == returned_hits[i]
            b == returned_hits[i + 1]
        IN  (a._score = b._score /\ a._match_priority = b._match_priority)
                => penalties_in_order(winning_penalties_of(a), winning_penalties_of(b))

\* two hits carry the same id, or the same id_etab when neither has an id
same_id(a, b) ==
    IF a.id # None /\ b.id # None THEN a.id = b.id
    ELSE /\ a.id = None
         /\ b.id = None
         /\ a.id_etab # None
         /\ a.id_etab = b.id_etab

\* C6: no two hits returned by deduplicate_results or by process_results
\* carry the same id (or the same id_etab when id is absent)
C6_UniqueIds ==
    pc = "ranked" =>
        /\ \A i \in 1..Len(dedup) : \A j \in (i + 1)..Len(dedup) :
             ~same_id(dedup[i], dedup[j])
        /\ \A i \in 1..Len(returned_hits) : \A j \in (i + 1)..Len(returned_hits) :
             ~same_id(returned_hits[i], returned_hits[j])

\* the strategy lists one after the other in the fixed order, each hit
\* stamped with the strategy whose list it is in
RECURSIVE stamped_lists(_, _)
stamped_lists(order, k) ==
    IF k > Len(order) THEN <<>>
    ELSE (IF order[k] \in DOMAIN all_results
          THEN [i \in 1..Len(all_results[order[k]].hits) |->
                  [_discovery_strategy |-> order[k]] @@ all_results[order[k]].hits[i]]
          ELSE <<>>)
         \o stamped_lists(order, k + 1)

in_priority_order == stamped_lists(<<"name_search", "no_space", "standard", "phonetic">>, 1)

\* the document a stamped hit is a copy of
document_of(h) == [f \in DOMAIN h \ {"_discovery_strategy"} |-> h[f]]

\* position of the first occurrence of the document of h in in_priority_order
\* (0 when there is none)
first_occurrence(h) ==
    LET at == {q \in 1..Len(in_priority_order) :
                 document_of(in_priority_order[q]) = document_of(h)}
    IN  IF at = {} THEN 0 ELSE CHOOSE q \in at : \A r \in at : q <= r

\* two hits are the same document, or carry a common id, id_etab or name
same_document(a, b) ==
    \/ document_of(a) = document_of(b)
    \/ ({a.id, a.id_etab} \cap {b.id, b.id_etab}) \ {None} # {}
    \/ a.name = b.name

\* C7: the deduplicated list holds each document once, as its first
\* occurrence in the highest-priority strategy of the order name_search,
\* no_space, standard, phonetic, stamped with that strategy; it keeps the
\* strategy-priority order and, within a strategy, the backend's order; and
\* every occurrence in the lists is the kept hit or follows the kept hit of
\* its document
C7_FirstOccurrenceKept ==
    pc = "ranked" =>
        LET listed == in_priority_order
            first == [k \in 1..Len(dedup) |-> first_occurrence(dedup[k])]
        IN  /\ \A k \in 1..Len(dedup) :
                 /\ first[k] > 0
                 /\ dedup[k] = listed[first[k]]
            /\ \A k \in 1..Len(dedup) - 1 : first[k] < first[k + 1]
            /\ \A q \in 1..Len(listed) :
                 \E k \in 1..Len(dedup) :
                    /\ first[k] <= q
                    /\ same_document(dedup[k], listed[q])

\* witness of C7: a document returned by two strategies was kept once, under
\* the first of them, ahead of a hit that only a later strategy returned
C7_Witness ==
    /\ pc = "ranked"
    /\ \E q \in 1..Len(in_priority_order) : \E k \in 1..Len(dedup) :
         /\ first_occurrence(dedup[k]) < q
         /\ document_of(in_priority_order[q]) = document_of(dedup[k])
         /\ in_priority_order[q]._discovery_strategy # dedup[k]._discovery_strategy
         /\ k < Len(dedup)
    /\ Len(dedup) < Len(in_priority_order)


\* the hits of a response whose _score reaches 10.0
exact_hits_of(r) == {i \in 1..Len(r.hits) : RGe(r.hits[i]._score, RI(10))}

\* C8: in the response search returns, on a cache hit and on a cache miss,
\* total is the number of hits of the response, has_exact_results is true iff
\* some hit of the response has _score >= 10.0 and exact_count is the number
\* of such hits
C8_SummaryDescribesHits ==
    pc = "done" =>
        /\ response.total = Len(response.hits)
        /\ response.has_exact_results = (exact_hits_of(response) # {})
        /\ response.exact_count = Cardinality(exact_hits_of(response))

\* how many times search called the operation named c
count_calls(c) == Cardinality({i \in 1..Len(calls) : calls[i] = c})

\* search has returned a response it found in the cache
returned_from_cache == pc = "done" /\ cached_result.present

\* search has returned a response it computed
returned_from_search == pc = "done" /\ ~cached_result.present

\* C9: on a cache hit cache.get is called once, _execute_search is not run
\* and cache.set is called exactly once before the response is returned
C9_HitRefreshesEntry ==
    returned_from_cache =>
        /\ count_calls("cache.get") = 1
        /\ count_calls("_execute_search") = 0
        /\ count_calls("cache.set") = 1

\* the calls of one search, in order
calls_in_order ==
    /\ count_calls("_execute_search") <= 1
    /\ returned_from_cache => count_calls("_execute_search") = 0
    /\ pc \in {"cache_set", "failed"} => calls = <<"cache.get", "_execute_search">>
    /\ returned_from_search => calls = <<"cache.get", "_execute_search", "cache.set">>

\* the step that returns a computed response stores under the request's key
\* the whole ranked list up to limit, whatever offset and per_page cut out of
\* it for the caller, and touches no other entry
stores_complete_response ==
    (pc = "cache_set" /\ pc' = "done") =>
        LET key == cache_key_of(query_data, options)
        IN  /\ cache'[key].present
            /\ cache'[key].json.hits = slice(processed.hits, 0, options.limit)
            /\ response'.hits = slice(cache'[key].json.hits, options.offset,
                                      options.offset + options.per_page)
            /\ \A k \in CacheKeys \ {key} : cache'[k] = cache[k]

retrieval_fails == pc = "execute" /\ pc' # "execute" /\ failed_strategies' # {}

\* that step ends the search without a response: the ranker is not run, no
\* response is built and the cache is left as it was
fails_as_a_whole ==
    retrieval_fails =>
        /\ pc' = "failed"
        /\ response' = no_value
        /\ full_response' = no_value
        /\ dedup' = no_value
        /\ processed' = no_value
        /\ cache' = cache

\* the search being served ran its fan-out and a retrieval raised
retrieval_failed == count_calls("_execute_search") = 1 /\ failed_strategies # {}

\* such a search has failed: it returns nothing and writes nothing
no_partial_outcome ==
    retrieval_failed =>
        /\ pc = "failed"
        /\ response = no_value
        /\ full_response = no_value
        /\ count_calls("cache.set") = 0

\* C11: when a retrieval of the fan-out fails the search fails as a whole: no
\* response is produced from the strategies that returned, the ranker is not
\* run on a partial map and nothing is written to the cache
C11_AllOrNothing ==
    /\ [][fails_as_a_whole]_vars
    /\ []no_partial_outcome

\* witness of C11: a search failed because one retrieval raised while another
\* strategy had returned hits; the key of the request has no cache entry
C11_Witness ==
    /\ retrieval_failed
    /\ \E s \in DOMAIN all_results :
         all_results[s] # MeiliError /\ Len(all_results[s].hits) > 0
    /\ ~cache[cache_key_of(query_data, options)].present

\* C12: scoring and ranking never fail: for every query and every lists of
\* candidates, hits without id or with ids of different types included,
\* process_results ends with a result and raises in no step
C12_RankingNeverFails ==
    processed # no_value => processed.status = "ok"

\* the query has no cleaned word
empty_query == Len(query_data.wordsCleaned) = 0

\* the statement of C13 as written: when wordsCleaned is empty every
\* candidate is scored 0 with _match_type partial, whatever its fields and
\* whatever the soundex of the query
C13_Original ==
    (scored # no_value /\ empty_query) =>
        /\ scored._score = RI(0)
        /\ scored._match_type = "partial"

\* the phonetic score of the candidate being scored
phon_score_of_hit == calculate_phonetic_score(hit, query_data)

\* C13: when wordsCleaned is empty the textual score of every candidate is 0
\* with match type partial; the hit is scored 0 / partial unless it has a
\* positive phonetic score, which it then takes by phonetic fallback
C13_EmptyQueryTextScoreZero ==
    (scored # no_value /\ empty_query) =>
        /\ calculate_main_score(hit, query_data).total_score = RI(0)
        /\ calculate_main_score(hit, query_data).match_type = "partial"
        /\ IF RGt(phon_score_of_hit.score, RI(0))
           THEN /\ scored._score = phon_score_of_hit.score
                /\ scored._match_type = phon_score_of_hit.match_type
                /\ scored._match_method = "phonetic_fallback"
           ELSE /\ scored._score = RI(0)
                /\ scored._match_type = "partial"
                /\ scored._match_method = "text_only"

\* witness of C13: a candidate with text fields was scored against an empty
\* query and took its phonetic score
C13_Witness ==
    /\ scored # no_value
    /\ empty_query
    /\ Len(hit.name_search) > 0
    /\ scored._match_method = "phonetic_fallback"

-----------------------------------------------------------------------------
(* Phonetic scoring of one candidate: soundex texts of several tokens *)

\* bound: number of tokens of a generated soundex text
MaxSoundexTokens == 2

w_k == <<"k">>
w_kfab == <<"k", "f", "a", "b">>
w_kfabcd == <<"k", "f", "a", "b", "c", "d">>
w_kfabxd == <<"k", "f", "a", "b", "x", "d">>

\* soundex texts: a one-character token (dropped by phonetic_tokens), a short
\* token, a prefix of longer ones, and two long tokens at distance 1
PhoneticTexts == texts({w_k, w_kf, w_kfab, w_kfabcd, w_kfabxd}, MaxSoundexTokens)

PhoneticQueries == {mk_query(w_Ab, w_ab, sx) : sx \in PhoneticTexts}

\* candidates without text (textual score 0), with a text close to the query
\* "ab", and with the text of the query
PhoneticHits ==
    {mk_hit(1, None, ns, ns, <<>>, sx) : ns \in {<<>>, w_ac, w_ab}, sx \in PhoneticTexts}

PhoneticInit ==
    /\ query_data \in PhoneticQueries
    /\ hit \in PhoneticHits
    /\ scored = no_value
    /\ all_results = no_value
    /\ dedup = no_value
    /\ processed = no_value
    /\ index = no_value
    /\ cache = no_value
    /\ options = no_value
    /\ pc = "classify"
    /\ cached_result = no_value
    /\ full_response = no_value
    /\ response = no_value
    /\ calls = <<>>
    /\ evaluator_unused
    /\ field_unused
    /\ dispersion_unused
    /\ distance_unused
    /\ argument_unused
    /\ gather_unused

PhoneticSpec == PhoneticInit /\ [][ScoreNext]_vars

\* the phonetic tokens of the query and of the candidate
q_tokens == phonetic_tokens(strip(query_data.soundex))
h_tokens == phonetic_tokens(strip(hit.name_soundex))

\* number of occurrences of token t in the token list ts
occurrences(ts, t) == Cardinality({i \in 1..Len(ts) : ts[i] = t})

\* the candidate has been scored and its textual score is 0
text_score_zero ==
    scored # no_value /\ calculate_main_score(hit, query_data).total_score = RI(0)

\* every phonetic token of the query equals some phonetic token of the
\* candidate
every_token_equals ==
    /\ Len(q_tokens) > 0
    /\ \A i \in 1..Len(q_tokens) : \E j \in 1..Len(h_tokens) : q_tokens[i] = h_tokens[j]

\* every phonetic token of the query occurs in the candidate at least as
\* often as in the query
every_token_paired ==
    /\ Len(q_tokens) > 0
    /\ \A i \in 1..Len(q_tokens) :
         occurrences(q_tokens, q_tokens[i]) <= occurrences(h_tokens, q_tokens[i])

\* the phonetic score of the scored candidate never exceeds 7.5
phonetic_score_capped ==
    scored # no_value =>
        RLe(calculate_phonetic_score(hit, query_data).score, R(75, 10))

fuzzy_types == {"fuzzy_full", "fuzzy_partial", "near_perfect"}

\* C15: a returned exact_with_extras hit has _score < 10.0 and stands in the
\* returned list above every fuzzy_full, fuzzy_partial or near_perfect hit
C15_ExtrasAboveFuzzy ==
    \A i \in 1..Len(returned_hits) :
        returned_hits[i]._match_type = "exact_with_extras" =>
            /\ RLt(returned_hits[i]._score, RI(10))
            /\ \A j \in 1..Len(returned_hits) :
                 returned_hits[j]._match_type \in fuzzy_types => i < j

-----------------------------------------------------------------------------
(* FieldEvaluator with a synonym table: calculate_word_match and the ranker *)

w_st == <<"s", "t">>
w_st_dot == <<"s", "t", ".">>
w_saint == <<"s", "a", "i", "n", "t">>
w_Saint == <<"S", "a", "i", "n", "t">>
w_jean == <<"j", "e", "a", "n">>
w_Jean == <<"J", "e", "a", "n">>
w_chinois == <<"c", "h", "i", "n", "o", "i", "s">>
w_asiatique == <<"a", "s", "i", "a", "t", "i", "q", "u", "e">>
w_oriental == <<"o", "r", "i", "e", "n", "t", "a", "l">>
w_chine == <<"c", "h", "i", "n", "e">>
w_libanais == <<"l", "i", "b", "a", "n", "a", "i", "s">>
w_liban == <<"l", "i", "b", "a", "n">>
w_mezze == <<"m", "e", "z", "z", "e">>

\* rows of settings.SYNONYMS_FR: 'saint', 'chinois' and 'libanais'
SYNONYMS_FR ==
    {[base |-> w_saint, syns |-> {w_st, w_st_dot}],
     [base |-> w_chinois, syns |-> {w_asiatique, w_oriental, w_chine}],
     [base |-> w_libanais, syns |-> {w_oriental, w_liban, w_mezze}]}

\* the tables an evaluator is built with: none (the default), the configured
\* table, or some of its rows
SynonymTables == SUBSET SYNONYMS_FR

\* the words of the configured table
table_words == UNION {{row.base} \cup row.syns : row \in SYNONYMS_FR}

\* words handed to calculate_word_match: bases and surface forms of the three
\* rows, a base in upper case and a word that is not in the table
SynonymWords ==
    {w_st, w_st_dot, w_saint, w_Saint, w_jean, w_chinois, w_chine, w_oriental,
     w_libanais, w_liban}

\* scenario S4: the query "St Jean" and candidates named with the long form
\* and with the short form
SynonymQueries == {mk_query(join(<<w_Saint, w_Jean>>), join(<<w_saint, w_jean>>), <<>>),
                   mk_query(join(<<w_st, w_Jean>>), join(<<w_st, w_jean>>), <<>>)}

SynonymHits ==
    {mk_hit(1, None, join(<<w_Saint, w_Jean>>), join(<<w_saint, w_jean>>), <<>>, <<>>),
     mk_hit(1, None, join(<<w_st, w_Jean>>), join(<<w_st, w_jean>>), <<>>, <<>>),
     mk_hit(1, None, w_Jean, join(<<w_oriental, w_jean>>), <<>>, <<>>)}

SynonymInit ==
    /\ synonyms \in SynonymTables
    /\ query_data \in SynonymQueries
    /\ hit \in SynonymHits
    /\ match_query = no_value
    /\ match_candidate = no_value
    /\ word_match = no_value
    /\ scored = no_value
    /\ all_results = no_value
    /\ dedup = no_value
    /\ processed = no_value
    /\ index = no_value
    /\ cache = no_value
    /\ options = no_value
    /\ pc = "classify"
    /\ cached_result = no_value
    /\ full_response = no_value
    /\ response = no_value
    /\ calls = <<>>
    /\ field_unused
    /\ dispersion_unused
    /\ distance_unused
    /\ argument_unused
    /\ gather_unused

\* the evaluator is asked to match two words
CalculateWordMatch ==
    /\ pc = "classify"
    /\ \E q \in SynonymWords : \E c \in SynonymWords :
         /\ match_query' = q
         /\ match_candidate' = c
         /\ word_match' = calculate_word_match(q, c)
    /\ pc' = "matched"
    /\ UNCHANGED <<query_data, hit, scored, all_results, dedup, processed, index,
                   cache, options, cached_result, full_response, response, calls,
                   synonyms>>
    /\ UNCHANGED field_vars
    /\ UNCHANGED dispersion_vars
    /\ UNCHANGED distance_vars
    /\ UNCHANGED argument_vars
    /\ UNCHANGED gather_vars

SynonymNext == ClassifyResult \/ CalculateWordMatch

SynonymSpec == SynonymInit /\ [][SynonymNext]_vars

\* the query and the candidate of scenario S4
scenario_S4 ==
    /\ query_data.wordsCleaned = <<w_st, w_jean>>
    /\ hit.name_search = join(<<w_saint, w_jean>>)

\* C16: with the table the search service leaves in its ranker, the query
\* [st, jean] against name_search 'saint jean' is an exact_full hit, 'st'
\* being aligned with 'saint' as a synonym at distance 0
C16_ServiceAppliesSynonyms ==
    (scored # no_value /\ synonyms = default_synonyms /\ scenario_S4) =>
        /\ calculate_word_match(w_st, w_saint).type = "synonym"
        /\ calculate_word_match(w_st, w_saint).distance = 0
        /\ scored._match_type = "exact_full"

\* calculate_word_match has been applied to two words
word_matched == pc = "matched" /\ word_match # no_value

\* the two words differ, case aside
different_words == lower(match_query) # lower(match_candidate)

\* the result of calculate_word_match for synonyms
is_synonym_match(m) == m.distance = 0 /\ m.type = "synonym"

\* C17: a is a synonym of b iff b is a synonym of a, and two different words
\* that are synonyms are matched at distance 0 with type synonym in both
\* directions
C17_SynonymSymmetry ==
    word_matched =>
        /\ apply_synonyms(match_query, match_candidate)
              <=> apply_synonyms(match_candidate, match_query)
        /\ (different_words /\ apply_synonyms(match_query, match_candidate)) =>
              /\ is_synonym_match(word_match)
              /\ word_match.matched_word = match_candidate
              /\ is_synonym_match(calculate_word_match(match_candidate, match_query))

\* witness of C17: a surface form was matched against the base of its row, in
\* upper case, by an evaluator built with the configured table
C17_Witness ==
    /\ word_matched
    /\ synonyms = SYNONYMS_FR
    /\ match_query = w_st
    /\ match_candidate = w_Saint
    /\ is_synonym_match(word_match)

\* the bases of the rows of the table in which the word w stands
canonical_bases(w) ==
    {row.base : row \in {r \in synonyms : lower(w) = r.base \/ lower(w) \in r.syns}}

\* C18: synonymy is membership in one canonical class: a word of the table
\* maps to a single base, and the synonym of a synonym is a synonym
C18_CanonicalClasses ==
    word_matched =>
        /\ Cardinality(canonical_bases(match_query)) <= 1
        /\ \A b \in table_words :
             (apply_synonyms(match_query, b) /\ apply_synonyms(b, match_candidate))
                => apply_synonyms(match_query, match_candidate)

-----------------------------------------------------------------------------
(* FieldEvaluator.evaluate_field on its own: repeated words *)

\* query texts and candidate texts over a small vocabulary, so that words
\* repeat in the query, in the candidate, and in both
FieldQueries == {mk_query(t, t, <<>>) : t \in texts({w_ab, w_ac}, MaxFieldWords)}

FieldHits ==
    {mk_hit(1, None, <<>>, ns, <<>>, <<>>) : ns \in texts({w_ab, w_ac, w_abcd}, MaxFieldWords)}

FieldInit ==
    /\ query_data \in FieldQueries
    /\ hit \in FieldHits
    /\ field_eval = no_value
    /\ evaluator_unused
    /\ scored = no_value
    /\ all_results = no_value
    /\ dedup = no_value
    /\ processed = no_value
    /\ index = no_value
    /\ cache = no_value
    /\ options = no_value
    /\ pc = "classify"
    /\ cached_result = no_value
    /\ full_response = no_value
    /\ response = no_value
    /\ calls = <<>>
    /\ dispersion_unused
    /\ distance_unused
    /\ argument_unused
    /\ gather_unused

\* evaluate_field(wordsCleaned, the words of name_search, cleaned), as
\* calculate_main_score calls it; scans comes from the loop of the same call
EvaluateField ==
    /\ pc = "classify"
    /\ field_eval' =
         [result |-> evaluate_field(query_data.wordsCleaned,
                                    words_of(lower(hit.name_search)), query_data.cleaned),
          scans |-> match_query_words(query_data.wordsCleaned,
                                      words_of(lower(hit.name_search)), 1,
                                      no_alignment).scans]
    /\ pc' = "evaluated"
    /\ UNCHANGED <<query_data, hit, scored, all_results, dedup, processed, index,
                   cache, options, cached_result, full_response, response, calls>>
    /\ UNCHANGED evaluator_vars
    /\ UNCHANGED dispersion_vars
    /\ UNCHANGED distance_vars
    /\ UNCHANGED argument_vars
    /\ UNCHANGED gather_vars

FieldNext == EvaluateField

FieldSpec == FieldInit /\ [][FieldNext]_vars

\* the alignments of the evaluate_field call
found_of_field == field_eval.result.found

\* C19: in one evaluate_field call no candidate position stands in two
\* alignments of found, and a position consumed for a query word is not
\* scanned for any later query word
C19_AlignmentUniqueness ==
    field_eval # no_value =>
        /\ \A i \in 1..Len(found_of_field) : \A j \in 1..Len(found_of_field) :
             i # j => found_of_field[i].position # found_of_field[j].position
        /\ \A i \in 1..Len(found_of_field) :
             \E k \in 1..Len(field_eval.scans) :
                 field_eval.scans[k].consumed = found_of_field[i].position
        /\ \A k \in 1..Len(field_eval.scans) : \A l \in (k + 1)..Len(field_eval.scans) :
             field_eval.scans[k].consumed # None
                => field_eval.scans[k].consumed \notin field_eval.scans[l].scanned

\* witness of C19: a query that repeats a word was evaluated against a
\* candidate that repeats it too, and both occurrences were aligned
C19_Witness ==
    /\ field_eval # no_value
    /\ Len(found_of_field) >= 2
    /\ found_of_field[1].query_word = found_of_field[2].query_word
    /\ found_of_field[1].matched_word = found_of_field[2].matched_word
    /\ found_of_field[1].position # found_of_field[2].position

-----------------------------------------------------------------------------
(* GeoDispersionService (app/scoring/dispersion.py) *)

GEO_DISPERSION_GRID_SIZE == R(1, 10)

\* coordinates are held in hundredths of a degree: 4805 is the float 48.05.
\* The coordinates of the model are values whose float quotient by the grid
\* size truncates to the same integer as the exact quotient.
CoordUnit == 100

\* characters of ids' decimal renderings and of names, in code point order
CodePointOrder ==
    <<"-", "0", "1", "2", "3", "4", "5", "6", "7", "8", "9", "A", "_", "a", "b",
      "c", "d">>

code_point(c) == CHOOSE i \in 1..Len(CodePointOrder) : CodePointOrder[i] = c

\* a < b on str
RECURSIVE str_lt(_, _)
str_lt(a, b) ==
    IF Len(b) = 0 THEN FALSE
    ELSE IF Len(a) = 0 THEN TRUE
    ELSE IF Head(a) = Head(b) THEN str_lt(Tail(a), Tail(b))
    ELSE code_point(Head(a)) < code_point(Head(b))

\* str(n) for n >= 0
RECURSIVE str_of_nat(_)
str_of_nat(n) ==
    IF n < 10 THEN <<CodePointOrder[n + 2]>>
    ELSE str_of_nat(n \div 10) \o <<CodePointOrder[(n % 10) + 2]>>

\* str(n)
str_of_int(n) == IF n < 0 THEN <<"-">> \o str_of_nat(0 - n) ELSE str_of_nat(n)

\* int(x): truncation towards zero
int_of(x) == IF x.n >= 0 THEN x.n \div x.d ELSE 0 - ((0 - x.n) \div x.d)

\* a coordinate value that float() rejects with ValueError, such as 'abc'
NotANumber == -4

\* a hit as disperse_results sees it.  format tells which keys carry the
\* coordinates: "_geo" ({'_geo': {'lat': .., 'lng': ..}}), "lat_lng",
\* "lat_long", "none" (no coordinate key) or "_geo_null" ({'_geo': None}).
\* id = None stands for a hit without id key.
mk_geo_hit(id, name, format, lat, lng) ==
    [id |-> id, name |-> name, format |-> format, lat |-> lat, lng |-> lng]

no_point == [status |-> "None", lat |-> 0, lng |-> 0]

\* GeoPoint.from_dict: status "point", "None", or "AttributeError" when
\* data["_geo"] is None and .get is called on it
from_dict(data) ==
    IF data.format = "_geo_null" THEN [no_point EXCEPT !.status = "AttributeError"]
    ELSE IF data.format = "none" THEN no_point
    ELSE IF data.lat = None \/ data.lng = None THEN no_point
    ELSE IF data.lat = NotANumber \/ data.lng = NotANumber THEN no_point
    ELSE [status |-> "point", lat |-> data.lat, lng |-> data.lng]

_get_grid_cell(point) ==
    str_of_int(int_of(RDiv(R(point.lat, CoordUnit), GEO_DISPERSION_GRID_SIZE)))
    \o <<"_">>
    \o str_of_int(int_of(RDiv(R(point.lng, CoordUnit), GEO_DISPERSION_GRID_SIZE)))

\* the cell of a hit that has a point
cell_of(h) == _get_grid_cell(from_dict(h))

\* the key of the sort inside a cell: x.get('id', ''), x.get('name', ''),
\* x.get('lat', 0), x.get('lng', 0)
sort_key(x) ==
    [id |-> IF x.id = None THEN EmptyStr ELSE x.id,
     name |-> x.name,
     lat |-> IF x.format \in {"lat_lng", "lat_long"} THEN x.lat ELSE 0,
     lng |-> IF x.format = "lat_lng" THEN x.lng ELSE 0]

\* ka < kb on the key tuples; never applied to ids of different types
key_lt(ka, kb) ==
    IF ka.id # kb.id THEN ka.id < kb.id
    ELSE IF ka.name # kb.name THEN str_lt(ka.name, kb.name)
    ELSE IF ka.lat # kb.lat THEN ka.lat < kb.lat
    ELSE ka.lng < kb.lng

\* comparing the keys of some two hits of the cell raises TypeError: an int id
\* against the '' of a hit without id
mixed_id_types(cell) ==
    \E i \in 1..Len(cell) : \E j \in 1..Len(cell) :
        (cell[i].id = None) # (cell[j].id = None)

\* x put into the sorted list after the elements that are not greater
RECURSIVE insert_by_key(_, _)
insert_by_key(sorted_cell, x) ==
    IF Len(sorted_cell) = 0 THEN <<x>>
    ELSE IF key_lt(sort_key(x), sort_key(Head(sorted_cell)))
    THEN <<x>> \o sorted_cell
    ELSE <<Head(sorted_cell)>> \o insert_by_key(Tail(sorted_cell), x)

\* cell.sort(key=...): stable, ascending
RECURSIVE sort_cell(_, _)
sort_cell(cell, k) ==
    IF k = 0 THEN <<>>
    ELSE insert_by_key(sort_cell(cell, k - 1), cell[k])

\* sorted(cells.keys())
RECURSIVE sorted_cell_ids(_)
sorted_cell_ids(ids) ==
    IF ids = {} THEN <<>>
    ELSE LET first == CHOOSE c \in ids : \A d \in ids \ {c} : str_lt(c, d)
         IN  <<first>> \o sorted_cell_ids(ids \ {first})

\* the hits of one cell, in the order of the list
hits_of_cell(hits, cell_id) == SelectSeq(hits, LAMBDA h : cell_of(h) = cell_id)

\* cell_lists before the sort of the cells
cell_lists_of(hits) ==
    LET ids == sorted_cell_ids({cell_of(hits[i]) : i \in 1..Len(hits)})
    IN  [c \in 1..Len(ids) |-> hits_of_cell(hits, ids[c])]

\* the inner loop of the round-robin: the i-th hit (0-based) of the cells from
\* cell c on
RECURSIVE round_of(_, _, _)
round_of(cell_lists, i, c) ==
    IF c > Len(cell_lists) THEN <<>>
    ELSE (IF i < Len(cell_lists[c]) THEN <<cell_lists[c][i + 1]>> ELSE <<>>)
         \o round_of(cell_lists, i, c + 1)

\* the outer loop of the round-robin from round i on
RECURSIVE round_robin(_, _, _)
round_robin(cell_lists, i, max_items) ==
    IF i >= max_items THEN <<>>
    ELSE round_of(cell_lists, i, 1) \o round_robin(cell_lists, i + 1, max_items)

max_len(cell_lists) ==
    CHOOSE n \in {Len(cell_lists[c]) : c \in 1..Len(cell_lists)} :
        \A c \in 1..Len(cell_lists) : Len(cell_lists[c]) <= n

\* mutant: only the first hit of every cell is taken
_disperse_by_grid_first_round(hits) ==
    LET cell_lists == cell_lists_of(hits)
    IN  IF \E c \in 1..Len(cell_lists) : mixed_id_types(cell_lists[c])
        THEN [status |-> "TypeError", dispersed |-> <<>>, cells_used |-> 0]
        ELSE [status |-> "ok",
              dispersed |-> round_robin(
                  [c \in 1..Len(cell_lists) |->
                      sort_cell(cell_lists[c], Len(cell_lists[c]))], 0, 1),
              cells_used |-> Len(cell_lists)]

\* hits is the non-empty list of the hits that have a point
_disperse_by_grid(hits) ==
    LET cell_lists == cell_lists_of(hits)
    IN  IF \E c \in 1..Len(cell_lists) : mixed_id_types(cell_lists[c])
        THEN [status |-> "TypeError", dispersed |-> <<>>, cells_used |-> 0]
        ELSE [status |-> "ok",
              dispersed |-> round_robin(
                  [c \in 1..Len(cell_lists) |->
                      sort_cell(cell_lists[c], Len(cell_lists[c]))],
                  0, max_len(cell_lists)),
              cells_used |-> Len(cell_lists)]

has_point(h) == from_dict(h).status = "point"

\* the result of disperse_results once the hits are split; by_grid is the
\* result of _disperse_by_grid on the hits with a point
dispersion_result(by_grid, geo_hits, non_geo_hits) ==
    IF by_grid.status # "ok"
    THEN [status |-> by_grid.status, hits |-> <<>>, cells_used |-> 0,
          geo_hits |-> 0, non_geo_hits |-> 0]
    ELSE [status |-> "ok", hits |-> by_grid.dispersed \o non_geo_hits,
          cells_used |-> by_grid.cells_used, geo_hits |-> Len(geo_hits),
          non_geo_hits |-> Len(non_geo_hits)]

\* status "ok" when a dict is returned, else the exception that is raised
disperse_results(hits) ==
    IF Len(hits) = 0
    THEN [status |-> "ok", hits |-> <<>>, cells_used |-> 0, geo_hits |-> 0,
          non_geo_hits |-> 0]
    ELSE IF \E i \in 1..Len(hits) : from_dict(hits[i]).status = "AttributeError"
    THEN [status |-> "AttributeError", hits |-> <<>>, cells_used |-> 0,
          geo_hits |-> 0, non_geo_hits |-> 0]
    ELSE IF \A i \in 1..Len(hits) : ~has_point(hits[i])
    THEN [status |-> "ok", hits |-> hits, cells_used |-> 0, geo_hits |-> 0,
          non_geo_hits |-> Len(hits)]
    ELSE dispersion_result(_disperse_by_grid(SelectSeq(hits, has_point)),
                           SelectSeq(hits, has_point),
                           SelectSeq(hits, LAMBDA h : ~has_point(h)))

\* bound: number of hits handed to disperse_results
MaxGeoHits == 3

\* hits in five cells ("-50_20" < "0_20" < "100_20" < "20_20" < "480_20" as
\* strings), several of them in one cell, with and without id, on both sides
\* of latitude 0, and hits without usable point: no coordinates, a null
\* latitude, a latitude that is no number and a null _geo
GeoHits ==
    {mk_geo_hit(2, w_ab, "_geo", 4800, 200),
     mk_geo_hit(1, w_ab, "_geo", 4800, 200),
     mk_geo_hit(None, w_ab, "_geo", 4800, 200),
     mk_geo_hit(None, w_ab, "_geo", 4805, 200),
     mk_geo_hit(3, w_ab, "lat_lng", 1000, 200),
     mk_geo_hit(4, w_ab, "lat_long", 200, 200),
     mk_geo_hit(9, w_ab, "_geo", -500, 200),
     mk_geo_hit(10, w_ab, "_geo", -5, 200),
     mk_geo_hit(11, w_ab, "_geo", 5, 200),
     mk_geo_hit(5, w_ab, "none", None, None),
     mk_geo_hit(6, w_ab, "lat_lng", None, 200),
     mk_geo_hit(7, w_ab, "lat_lng", NotANumber, 200),
     mk_geo_hit(8, w_ab, "_geo_null", None, None)}

DispersionInit ==
    /\ geo_hits_in \in lists_up_to(GeoHits, MaxGeoHits)
    /\ dispersion = no_value
    /\ field_unused
    /\ evaluator_unused
    /\ query_data = no_value
    /\ hit = no_value
    /\ scored = no_value
    /\ all_results = no_value
    /\ dedup = no_value
    /\ processed = no_value
    /\ index = no_value
    /\ cache = no_value
    /\ options = no_value
    /\ pc = "disperse"
    /\ cached_result = no_value
    /\ full_response = no_value
    /\ response = no_value
    /\ calls = <<>>
    /\ distance_unused
    /\ argument_unused
    /\ gather_unused

DisperseResults ==
    /\ pc = "disperse"
    /\ dispersion' = disperse_results(geo_hits_in)
    /\ pc' = "dispersed"
    /\ UNCHANGED <<query_data, hit, scored, all_results, dedup, processed, index,
                   cache, options, cached_result, full_response, response, calls,
                   geo_hits_in>>
    /\ UNCHANGED evaluator_vars
    /\ UNCHANGED field_vars
    /\ UNCHANGED distance_vars
    /\ UNCHANGED argument_vars
    /\ UNCHANGED gather_vars

DispersionNext == DisperseResults

DispersionSpec == DispersionInit /\ [][DispersionNext]_vars

\* disperse_results has returned a dict
dispersed_ok == dispersion # no_value /\ dispersion.status = "ok"

\* the hits given to disperse_results that have no usable point, in the order
\* of the input
hits_without_point == SelectSeq(geo_hits_in, LAMBDA h : ~has_point(h))

orderings_of(l) ==
    {p \in [1..Len(l) -> {l[i] : i \in 1..Len(l)}] :
        \A h \in GeoHits : occurrences(p, h) = occurrences(l, h)}

\* every hit given to disperse_results has a point
all_geo_located == \A i \in 1..Len(geo_hits_in) : has_point(geo_hits_in[i])

\* C21: geo dispersion is independent of the input order: for every ordering
\* of the same geo-located hits disperse_results gives the same result
C21_OrderIndependent ==
    (dispersion # no_value /\ all_geo_located) =>
        \A p \in orderings_of(geo_hits_in) : disperse_results(p) = dispersion

\* floor(x) of a rational
floor_of(x) == IF x.n >= 0 THEN x.n \div x.d ELSE 0 - ((0 - x.n + x.d - 1) \div x.d)

\* floor(c / g) for a coordinate c
floor_index(c) == floor_of(RDiv(R(c, CoordUnit), GEO_DISPERSION_GRID_SIZE))

\* the two hits have a point each and the same floored indices
same_floor(a, b) ==
    /\ floor_index(from_dict(a).lat) = floor_index(from_dict(b).lat)
    /\ floor_index(from_dict(a).lng) = floor_index(from_dict(b).lng)

\* C27: two geo-located hits are put in the same dispersion cell iff
\* floor(lat/g) and floor(lng/g) are equal for both, negative coordinates
\* included
C27_CellIsFloor ==
    dispersed_ok =>
        \A i \in 1..Len(geo_hits_in) : \A j \in 1..Len(geo_hits_in) :
            (has_point(geo_hits_in[i]) /\ has_point(geo_hits_in[j])) =>
                ((cell_of(geo_hits_in[i]) = cell_of(geo_hits_in[j]))
                    <=> same_floor(geo_hits_in[i], geo_hits_in[j]))

-----------------------------------------------------------------------------
(* StringDistance.distance under functools.lru_cache (app/scoring/distance.py) *)

\* bound: stands for maxsize=4096 of the lru_cache
LruMaxSize == 2

\* bound: number of calls of distance
MaxDistanceCalls == 4

\* mutant: the cap is left out of the key
lru_key_without_cap(s1, s2, max_dist) == [s1 |-> s1, s2 |-> s2, max_distance |-> None]

\* the key lru_cache makes of the arguments of a call on the one global
\* instance: every argument is part of it
lru_key(s1, s2, max_dist) == [s1 |-> s1, s2 |-> s2, max_distance |-> max_dist]

\* the entry of the key is in the cache
lru_hit(key) == \E i \in 1..Len(lru) : lru[i].key = key

\* the value the cache holds for the key
lru_value(key) == lru[CHOOSE i \in 1..Len(lru) : lru[i].key = key].value

\* the cache after a hit: the entry becomes the most recently used one
lru_touch(key) ==
    SelectSeq(lru, LAMBDA e : e.key # key) \o SelectSeq(lru, LAMBDA e : e.key = key)

\* the cache after a miss: the new entry is the most recently used one, and the
\* least recently used one is dropped when the cache is full
lru_store(key, value) ==
    LET grown == Append(lru, [key |-> key, value |-> value])
    IN  IF Len(grown) > LruMaxSize THEN Tail(grown) ELSE grown

\* the pairs of strings distance is called with and the caps
DistancePairs == {<<w_c, w_abcd>>, <<w_ab, <<>>>>, <<w_ab, w_ac>>}
DistanceCaps == {None, 1, 2}

DistanceInit ==
    /\ lru = <<>>
    /\ distance_calls = <<>>
    /\ dispersion_unused
    /\ field_unused
    /\ evaluator_unused
    /\ query_data = no_value
    /\ hit = no_value
    /\ scored = no_value
    /\ all_results = no_value
    /\ dedup = no_value
    /\ processed = no_value
    /\ index = no_value
    /\ cache = no_value
    /\ options = no_value
    /\ pc = "distance"
    /\ cached_result = no_value
    /\ full_response = no_value
    /\ response = no_value
    /\ calls = <<>>
    /\ argument_unused
    /\ gather_unused

\* the record of a call: its arguments, what it returned and whether the body
\* reached lev.distance
distance_call(s1, s2, max_dist, result, computed) ==
    [s1 |-> s1, s2 |-> s2, max_distance |-> max_dist, result |-> result, computed |-> computed]

\* a call whose key is in the cache: the body is not run
DistanceHit ==
    /\ pc = "distance"
    /\ Len(distance_calls) < MaxDistanceCalls
    /\ \E p \in DistancePairs : \E max_dist \in DistanceCaps :
        /\ lru_hit(lru_key(p[1], p[2], max_dist))
        /\ lru' = lru_touch(lru_key(p[1], p[2], max_dist))
        /\ distance_calls' =
            Append(distance_calls,
                   distance_call(p[1], p[2], max_dist,
                                 lru_value(lru_key(p[1], p[2], max_dist)), FALSE))
    /\ UNCHANGED <<query_data, hit, scored, all_results, dedup, processed, index,
                   cache, options, pc, cached_result, full_response, response,
                   calls>>
    /\ UNCHANGED evaluator_vars
    /\ UNCHANGED field_vars
    /\ UNCHANGED dispersion_vars
    /\ UNCHANGED argument_vars
    /\ UNCHANGED gather_vars

\* a call whose key is not in the cache: the body runs and its return is stored
DistanceMiss ==
    /\ pc = "distance"
    /\ Len(distance_calls) < MaxDistanceCalls
    /\ \E p \in DistancePairs : \E max_dist \in DistanceCaps :
        /\ ~lru_hit(lru_key(p[1], p[2], max_dist))
        /\ lru' = lru_store(lru_key(p[1], p[2], max_dist), distance(p[1], p[2], max_dist))
        /\ distance_calls' =
            Append(distance_calls,
                   distance_call(p[1], p[2], max_dist, distance(p[1], p[2], max_dist),
                                 Len(p[1]) > 0 /\ Len(p[2]) > 0))
    /\ UNCHANGED <<query_data, hit, scored, all_results, dedup, processed, index,
                   cache, options, pc, cached_result, full_response, response,
                   calls>>
    /\ UNCHANGED evaluator_vars
    /\ UNCHANGED field_vars
    /\ UNCHANGED dispersion_vars
    /\ UNCHANGED argument_vars
    /\ UNCHANGED gather_vars

DistanceNext == DistanceHit \/ DistanceMiss

DistanceSpec == DistanceInit /\ [][DistanceNext]_vars

\* the return the call must have: the true Levenshtein distance up to the cap,
\* the cap plus one above it, the longer length when a string is empty
capped_distance(c) ==
    IF Len(c.s1) = 0 \/ Len(c.s2) = 0 THEN MaxI(Len(c.s1), Len(c.s2))
    ELSE IF c.max_distance # None /\ lev_distance(c.s1, c.s2) > c.max_distance
    THEN c.max_distance + 1
    ELSE lev_distance(c.s1, c.s2)

\* calls i and j have identical arguments
same_arguments(i, j) ==
    /\ distance_calls[i].s1 = distance_calls[j].s1
    /\ distance_calls[i].s2 = distance_calls[j].s2
    /\ distance_calls[i].max_distance = distance_calls[j].max_distance

\* every call made so far returned the value of the pure function
returns_are_pure ==
    \A j \in 1..Len(distance_calls) :
        distance_calls[j].result = capped_distance(distance_calls[j])

\* the argument tuples of the calls made strictly between calls i and j
arguments_between(i, j) ==
    {[s1 |-> distance_calls[k].s1, s2 |-> distance_calls[k].s2, max_distance |-> distance_calls[k].max_distance] : k \in (i + 1)..(j - 1)}

-----------------------------------------------------------------------------
(* The ranker and its input *)

\* C23: the ranker leaves its input untouched: after process_results every
\* candidate document of the strategy result lists has exactly the fields and
\* values it had before the call
C23_InputUntouched == pc = "ranked" => all_results_after = all_results

-----------------------------------------------------------------------------
(* Edit-distance alignment in a field evaluation *)

\* min(max_distance, dynamic_max(q)) for a query word
word_cap(query_word) == MinI(max_distance, dynamic_max(lower(query_word)))

\* the true Levenshtein distance of the lowered words
true_distance(query_word, candidate_word) == lev_distance(lower(query_word), lower(candidate_word))

\* the candidate words of the evaluate_field call
field_candidates == words_of(lower(hit.name_search))

\* C24: in a field evaluation a query word is aligned by edit distance only
\* when its true Levenshtein distance to the matched candidate word is at most
\* min(max_distance, dynamic_max(query_word)), the distance recorded is that
\* true distance, and a word whose true distance to every unused candidate
\* word exceeds the cap is in not_found
C24_AlignedWithinCap ==
    field_eval # no_value =>
        /\ \A i \in 1..Len(found_of_field) :
             found_of_field[i].type = "levenshtein" =>
                /\ true_distance(found_of_field[i].query_word, found_of_field[i].matched_word)
                     <= word_cap(found_of_field[i].query_word)
                /\ found_of_field[i].distance
                     = true_distance(found_of_field[i].query_word, found_of_field[i].matched_word)
        /\ \A k \in 1..Len(field_eval.scans) :
             (\A position \in field_eval.scans[k].scanned :
                 true_distance(query_data.wordsCleaned[k], field_candidates[position + 1])
                     > word_cap(query_data.wordsCleaned[k]))
                => field_eval.scans[k].consumed = None

-----------------------------------------------------------------------------
(* Cache transparency of SearchService.search *)

\* the one full ranked list of a request: what the ranker makes of the
\* candidates of the index when no offset is applied before it
full_ranked_list(qd, opts) ==
    slice(process_results(_parallel_strategies(qd, [opts EXCEPT !.offset = 0]), qd).hits, 0, opts.limit)

\* C25: whether the response is computed on a cache miss or served from an
\* entry populated by a request that differed only in offset/per_page, its
\* hits are items offset .. offset+per_page-1 of the one full ranked list: the
\* offset is applied exactly once
C25_CacheTransparent ==
    (pc = "done" /\ process_results(_parallel_strategies(query_data, [options EXCEPT !.offset = 0]), query_data).status = "ok") =>
        response.hits
            = slice(full_ranked_list(query_data, options), options.offset,
                    options.offset + options.per_page)

-----------------------------------------------------------------------------
(* First accept in strict phonetic matching *)

\* the strict acceptance test: equality, or a prefix match of tokens of at
\* least 4 characters
strict_compatible(query_token, hit_token) ==
    \/ query_token = hit_token
    \/ /\ MinI(Len(query_token), Len(hit_token)) >= 4
       /\ (startswith(query_token, hit_token) \/ startswith(hit_token, query_token))

\* the candidate tokens (1-based) that query token k may still consume
acceptable_tokens(query_tokens, hit_tokens, k, used) ==
    {j \in 1..Len(hit_tokens) : j \notin used /\ strict_compatible(query_tokens[k], hit_tokens[j])}

\* the first of a non-empty set of positions
first_of(positions) == CHOOSE j \in positions : \A i \in positions : j <= i

\* the number of matches of a first-accept greedy scan from query token k on
RECURSIVE first_accept_matches(_, _, _, _)
first_accept_matches(query_tokens, hit_tokens, k, used) ==
    IF k > Len(query_tokens) THEN 0
    ELSE IF acceptable_tokens(query_tokens, hit_tokens, k, used) = {}
    THEN first_accept_matches(query_tokens, hit_tokens, k + 1, used)
    ELSE 1 + first_accept_matches(query_tokens, hit_tokens, k + 1,
                used \cup {first_of(acceptable_tokens(query_tokens, hit_tokens, k, used))})

\* C26: in strict mode each query token consumes the first unused candidate
\* token that is equal to it or prefix-compatible with it, so the number of
\* matched tokens is that of a first-accept greedy scan
C26_FirstAccept ==
    (scored # no_value /\ phon_score_of_hit.present) =>
        match_phonetic_tokens(q_tokens, h_tokens, FALSE).found
            = first_accept_matches(q_tokens, h_tokens, 1, {})

-----------------------------------------------------------------------------
(* The fan-out of _parallel_strategies (asyncio.gather) *)

\* strategies.keys(): the strategies in the order the dict was filled
strategy_keys(qd) ==
    <<"name_search", "no_space", "standard">>
    \o (IF Len(qd.soundex) > 0 THEN <<"phonetic">> ELSE <<>>)

\* the orders in which n tasks can complete: order[c] is the task (by its
\* position in tasks) that completes c-th
completion_orders(n) ==
    {order \in [1..n -> 1..n] : \A a \in 1..n : \A b \in 1..n : order[a] = order[b] => a = b}

\* the returns of the tasks in the order of their completion, each with the
\* position of its task
completions(keys, opts, order) ==
    [c \in 1..Len(keys) |-> [task |-> order[c], result |-> _meili_search(keys[order[c]], opts)]]

\* mutant: the results are listed in their order of completion
gather_as_completed(keys, opts, order) ==
    [position \in 1..Len(keys) |-> completions(keys, opts, order)[position].result]

\* asyncio.gather(*tasks): the result of each task stands at the position of
\* the task, whenever it completed
gather(keys, opts, order) ==
    [position \in 1..Len(keys) |->
        completions(keys, opts, order)[
            CHOOSE c \in 1..Len(keys) : completions(keys, opts, order)[c].task = position].result]

\* dict(zip(strategies.keys(), results))
zip_results(keys, results) ==
    [s \in {keys[i] : i \in 1..Len(keys)} |-> results[CHOOSE i \in 1..Len(keys) : keys[i] = s]]

GatherQueries == {mk_query(w_Ab, w_ab, <<>>), mk_query(w_Ab, w_ab, w_kf)}

GatherInit ==
    /\ query_data \in GatherQueries
    /\ options \in AllOptions
    /\ \E l1 \in lists_up_to(ServiceDocs, MaxIndexed) :
         index = [s \in {"name_search", "no_space", "standard", "phonetic"} |->
                    IF s = "name_search" THEN l1
                    ELSE IF s = "no_space" THEN <<doc_empty>>
                    ELSE IF s = "standard" THEN <<doc_fuzzy>>
                    ELSE <<doc_etab>>]
    /\ completion = no_value
    /\ all_results = no_value
    /\ processed = no_value
    /\ calls = <<>>
    /\ pc = "fan_out"
    /\ hit = no_value
    /\ scored = no_value
    /\ dedup = no_value
    /\ cache = no_value
    /\ cached_result = no_value
    /\ full_response = no_value
    /\ response = no_value
    /\ argument_unused
    /\ distance_unused
    /\ dispersion_unused
    /\ field_unused
    /\ evaluator_unused

\* _parallel_strategies followed by process_results, as in
\* _handle_advanced_search; calls lists the retrievals issued, by strategy
ParallelStrategies ==
    /\ pc = "fan_out"
    /\ calls' = strategy_keys(query_data)
    /\ \E order \in completion_orders(Len(strategy_keys(query_data))) :
         /\ completion' = order
         /\ all_results' = zip_results(strategy_keys(query_data),
                                       gather(strategy_keys(query_data), options, order))
    /\ processed' = process_results(all_results', query_data)
    /\ pc' = "gathered"
    /\ UNCHANGED <<query_data, hit, scored, dedup, index, cache, options,
                   cached_result, full_response, response>>
    /\ UNCHANGED evaluator_vars
    /\ UNCHANGED field_vars
    /\ UNCHANGED dispersion_vars
    /\ UNCHANGED distance_vars
    /\ UNCHANGED argument_vars

GatherNext == ParallelStrategies

GatherSpec == GatherInit /\ [][GatherNext]_vars

\* the strategies a structured query must be retrieved under
required_strategies ==
    {"name_search", "no_space", "standard"}
    \cup (IF query_data.soundex # <<>> THEN {"phonetic"} ELSE {})

\* C28: exactly one retrieval is issued per strategy name_search, no_space and
\* standard, plus one phonetic retrieval iff soundex is non-empty; whatever
\* order the retrievals complete in, each result list reaches the ranker under
\* the strategy that issued it, so the ranked output does not depend on the
\* completion order
C28_FanOutKeepsStrategies ==
    pc = "gathered" =>
        /\ \A s \in required_strategies : occurrences(calls, s) = 1
        /\ \A i \in 1..Len(calls) : calls[i] \in required_strategies
        /\ DOMAIN all_results = required_strategies
        /\ \A s \in required_strategies : all_results[s] = _meili_search(s, options)
        /\ processed = process_results([s \in required_strategies |-> _meili_search(s, options)], query_data)

\* witness of C28: the four retrievals of a query with soundex completed in
\* an order other than the order of issue, the phonetic one first, and their
\* result lists differ
C28_Witness ==
    /\ pc = "gathered"
    /\ Len(calls) = 4
    /\ completion[1] = 4
    /\ all_results["phonetic"] # all_results["standard"]
    /\ all_results["phonetic"].hits = <<doc_etab>>
    /\ processed.status = "ok"

-----------------------------------------------------------------------------
(* exact_full and the exact threshold *)

\* the tokenization invariant of QueryData: the cleaned and no_space texts are
\* not empty when the word lists are not
tokenization_invariant ==
    /\ Len(query_data.wordsCleaned) > 0 => Len(query_data.cleaned) > 0
    /\ Len(query_data.wordsNoSpace) > 0 => Len(query_data.no_space) > 0

is_exact_full(h) == h._match_type = "exact_full"

\* C29: for a QueryData that satisfies its tokenization invariant every hit
\* classified exact_full has _score >= EXACT_THRESHOLD; the exact short-circuit
\* drops no exact_full hit, and has_exact_results holds iff some returned hit
\* is exact_full
C29_ExactFullReachesThreshold ==
    tokenization_invariant =>
        /\ (pc = "classified" /\ is_exact_full(scored)) => RGe(scored._score, EXACT_THRESHOLD)
        /\ (pc = "ranked" /\ processed.status = "ok") =>
              /\ \A s \in survivors :
                    is_exact_full(s) =>
                        /\ RGe(s._score, EXACT_THRESHOLD)
                        /\ \E i \in 1..Len(processed.hits) : processed.hits[i] = s
              /\ processed.has_exact_results
                    <=> \E i \in 1..Len(processed.hits) : is_exact_full(processed.hits[i])

\* witness of C29: the ranker returned an exact_full hit, has_exact_results
\* holds, and a survivor that is not exact_full was dropped
C29_Witness ==
    /\ tokenization_invariant
    /\ pc = "ranked"
    /\ processed.status = "ok"
    /\ processed.has_exact_results
    /\ \E i \in 1..Len(processed.hits) : is_exact_full(processed.hits[i])
    /\ \E s \in survivors : ~is_exact_full(s) /\ \A i \in 1..Len(processed.hits) : processed.hits[i] # s

-----------------------------------------------------------------------------
(* Phonetic evidence in the final score: calculate_final_score *)

\* the textual score of the candidate being scored
text_score_of_hit == calculate_main_score(hit, query_data).total_score

\* the candidate being scored without its name_soundex
hit_without_soundex == [hit EXCEPT !.name_soundex = <<>>]

\* the weighted mean of case 2: text * w + phon * (1 - w), w = 0.7 + text / 40
hybrid_of(text_score, phon_value) ==
    LET text_weight == RAdd(R(7, 10), RDiv(text_score, RI(40)))
    IN  RAdd(RMul(text_score, text_weight),
             RMul(phon_value, RSub(RI(1), text_weight)))

\* case 2 applies: 6.0 <= text < 8.5 and a positive phonetic score
hybrid_band ==
    /\ RLe(RI(6), text_score_of_hit)
    /\ RLt(text_score_of_hit, R(85, 10))
    /\ RGt(phon_score_of_hit.score, RI(0))

====
